---- MODULE Spec2Model ----
(***************************************************************************)
(* Analysis-payment orchestration of the cryptoanalyst backend.            *)
(*                                                                         *)
(* The storage layer (Prisma) is modelled by the tables payments,          *)
(* analyses, distributions and stakeholders.  Every HTTP handler / service *)
(* method is an async function: it runs from one `await` to the next as an *)
(* atomic step, so a handler is a sequence of actions driven by the pc of  *)
(* the request slot that executes it.  users holds the wallet binding of   *)
(* each registered user.  Spec runs one request at a time;                 *)
(* SpecConc lets two requests interleave at their awaits.                  *)
(***************************************************************************)
EXTENDS Integers, Sequences, FiniteSets, TLC

VARIABLES payments, analyses, distributions, stakeholders, transfers,
          platformWallet, now, calls, users

vars == <<payments, analyses, distributions, stakeholders, transfers,
          platformWallet, now, calls, users>>

\* ---------------------------------------------------------------- bounds
MaxAnalyses == 1
MaxRows == 4
MaxClock == 1

\* ------------------------------------------------------------- constants
NULL == "null"
Users == {"u1"}
Hashes == {"0xabc"}
RandomHashes == {"0xr1"}
PayloadStatuses == {"completed", "failed", "refunded"}
RequestTypes == {"TECHNICAL_ANALYSIS", "technicalAnalysis", "MEME_ANALYSIS"}
WalletServices == {"paymentService", "walletRoutes"}
\* req.user.id of a caller that reads: the owner or somebody else.
Readers == {"u1", "u2"}
Slots == {1, 2}

\* The x-signature header of a webhook delivery: computed by the gateway,
\* forged, or absent.
Signatures == {"valid", "invalid", NULL}
GatewaySignatures == {"valid"}

\* req.body.type of create requests for two priced categories and one that
\* has no price.
PricedRequestTypes == {"technicalAnalysis", "basicOverview", "MEME_ANALYSIS"}

\* config.pricing: the keys are the camelCase property names.
PricingKeys == {"basicOverview", "technicalAnalysis", "fundamentalAnalysis",
                "portfolioReview", "marketSentiment", "defiOpportunities"}

pricing == [k \in PricingKeys |->
              CASE k = "basicOverview" -> 10
                [] k = "technicalAnalysis" -> 25
                [] k = "fundamentalAnalysis" -> 35
                [] k = "portfolioReview" -> 45
                [] k = "marketSentiment" -> 20
                [] k = "defiOpportunities" -> 50]

\* The lookup as it would be with a default price for unknown categories.
PriceOf_DefaultPrice(type) == IF type \in PricingKeys THEN pricing[type] ELSE 10

\* config.pricing[type]: undefined (0 here, falsy as in the code) for a
\* string that is no property of the table.
PriceOf(type) == IF type \in PricingKeys THEN pricing[type] ELSE 0

\* The stakeholder table is only ever read by the code; these are the
\* configurations an operator may have stored.
StakeholderConfigs ==
  { << [walletId |-> "w1", percentage |-> 60, type |-> "platform", isActive |-> TRUE],
       [walletId |-> "w3", percentage |-> 15, type |-> "researcher", isActive |-> FALSE],
       [walletId |-> "w2", percentage |-> 40, type |-> "data_provider", isActive |-> TRUE] >>,
    << [walletId |-> "w1", percentage |-> 60, type |-> "platform", isActive |-> TRUE],
       [walletId |-> "w1", percentage |-> 40, type |-> "platform", isActive |-> TRUE] >> }

\* ----------------------------------------------------------- the tables
NoResult == [fullAnalysis |-> NULL, executiveSummary |-> NULL, fearGreedIndex |-> 0]

PaymentExists(id) == id \in DOMAIN payments
AnalysisExists(id) == id \in DOMAIN analyses

\* The row as it would be if every payment were charged the basic price.
NewPayment_FlatAmount(userId, amount) ==
  [userId |-> userId, amount |-> 10, currency |-> "USD", status |-> "PENDING",
   x402PaymentId |-> NULL, transactionHash |-> NULL, completedAt |-> 0]

\* prisma.payment.create: a PENDING row with no gateway reference.
NewPayment(userId, amount) ==
  [userId |-> userId, amount |-> amount, currency |-> "USD", status |-> "PENDING",
   x402PaymentId |-> NULL, transactionHash |-> NULL, completedAt |-> 0]

\* prisma.analysis.create: PENDING_PAYMENT, no payment link, no result.
NewAnalysis(userId, type, price) ==
  [userId |-> userId, type |-> type, status |-> "PENDING_PAYMENT", price |-> price,
   paymentId |-> 0, result |-> NoResult, completedAt |-> 0]

\* prisma.analysis.findFirst({ where: { paymentId } }): the first row in
\* table order that links the payment, 0 when there is none.
FindAnalysisByPayment(pid) ==
  LET hit == {a \in DOMAIN analyses : analyses[a].paymentId = pid}
  IN IF hit = {} THEN 0 ELSE CHOOSE a \in hit : \A b \in hit : a <= b

\* The `include: { payment: true }` relation of an analysis row: the status
\* of the linked payment, NULL when the analysis links none.
LinkedPaymentStatus(aid) ==
  IF analyses[aid].paymentId \in DOMAIN payments
    THEN payments[analyses[aid].paymentId].status
    ELSE NULL

\* ------------------------------------------------------------ DataService
\* Whether the two quote providers answer a request made now.
NoProviders == [primaryOk |-> FALSE, secondaryOk |-> FALSE]

\* No quote fetched yet.
NoQuote == [ok |-> FALSE, source |-> NULL, consulted |-> {}]

\* getCryptoData as it would be without the fallback in its catch.
GetCryptoData_NoFallback(primaryOk, secondaryOk) ==
  IF primaryOk
    THEN [ok |-> TRUE, source |-> "coinmarketcap", consulted |-> {"coinmarketcap"}]
    ELSE [ok |-> FALSE, source |-> NULL, consulted |-> {"coinmarketcap"}]

\* DataService.getCryptoData: the CoinMarketCap request; in its catch the
\* CoinGecko request, whose failure is thrown as 'Failed to fetch
\* cryptocurrency data'.  The outcome, the provider the quote came from and
\* the providers that were asked.
GetCryptoData(primaryOk, secondaryOk) ==
  IF primaryOk
    THEN [ok |-> TRUE, source |-> "coinmarketcap", consulted |-> {"coinmarketcap"}]
  ELSE IF secondaryOk
    THEN [ok |-> TRUE, source |-> "coingecko", consulted |-> {"coinmarketcap", "coingecko"}]
  ELSE [ok |-> FALSE, source |-> NULL, consulted |-> {"coinmarketcap", "coingecko"}]

\* The value alternative.me reports when it answers.
ReportedFearGreed == 62

\* DataService.getFearGreedIndex: the reported value, 50 from the catch.
GetFearGreedIndex(ok) == IF ok THEN ReportedFearGreed ELSE 50

\* ------------------------------------------------------------ pagination
\* A JavaScript number: NaN, or an integer.
NaN == [nan |-> TRUE, val |-> 0]
Num(n) == [nan |-> FALSE, val |-> n]

\* req.query.page / req.query.limit: absent (NULL) or a string.
QueryValues == {NULL, "2", "0", "-1", "abc"}

\* Number(v) for the values a query parameter takes here; an absent
\* parameter was replaced by its destructuring default before.
NumberOf(v, default) ==
  CASE v = NULL -> Num(default)
    [] v = "2" -> Num(2)
    [] v = "0" -> Num(0)
    [] v = "-1" -> Num(0 - 1)
    [] OTHER -> NaN

\* Arithmetic on JavaScript numbers: NaN is contagious.
Times(a, b) == IF a.nan \/ b.nan THEN NaN ELSE Num(a.val * b.val)
Minus(a, b) == IF a.nan \/ b.nan THEN NaN ELSE Num(a.val - b.val)

\* { skip: (Number(page) - 1) * Number(limit), take: Number(limit) }
PageQuery(page, limit) ==
  [page |-> NumberOf(page, 1), limit |-> NumberOf(limit, 10),
   skip |-> Times(Minus(NumberOf(page, 1), Num(1)), NumberOf(limit, 10)),
   take |-> NumberOf(limit, 10)]

NoQuery == [page |-> Num(0), limit |-> Num(0), skip |-> Num(0), take |-> Num(0)]

\* What the storage layer accepts without question: a skip that is a
\* non-negative integer and a take that is an integer.
WellFormedQuery(q) == ~q.skip.nan /\ ~q.take.nan /\ q.skip.val >= 0

\* ------------------------------------------------------- request slots
Request(op, user, ref, status, hash, aid, type, ws) ==
  [op |-> op, user |-> user, ref |-> ref, status |-> status, hash |-> hash,
   aid |-> aid, type |-> type, ws |-> ws]

NoRequest == Request("none", NULL, 0, NULL, NULL, 0, NULL, NULL)

\* What a slot holds: the request (sig is its signature header; method and
\* path are set when it came in through the analysis routes), the
\* handler's position and locals, the response it sent (ret is the id of the
\* row a read returned; intentsSent counts the payment intents it submitted
\* to the gateway), and (pre) the tables as they were when the request began.
IdleCall ==
  [req |-> NoRequest, pc |-> "idle", analysis |-> 0, payment |-> 0, total |-> 0,
   dists |-> << >>, i |-> 0, tx |-> 0, wallet |-> NULL,
   providers |-> NoProviders, quote |-> NoQuote, market |-> NULL,
   sentiment |-> NULL, fearGreedIndex |-> 0, report |-> NULL, summary |-> NULL,
   hookFailed |-> FALSE, distInvoked |-> FALSE, fetched |-> FALSE, generated |-> FALSE,
   intentsSent |-> 0, query |-> NoQuery, issued |-> FALSE, listed |-> << >>,
   sig |-> NULL, method |-> NULL, path |-> << >>, resp |-> 0, body |-> NULL, ret |-> 0,
   pre |-> [payments |-> << >>, analyses |-> << >>, distributions |-> << >>]]

Free(c) == calls[c].pc \in {"idle", "done"}

Tables == [payments |-> payments, analyses |-> analyses, distributions |-> distributions]

\* A request enters slot c and runs to its first await.
Enter(c, req, pc) ==
  [IdleCall EXCEPT !.req = req, !.pc = pc, !.pre = Tables]

\* The handler returned: its locals are gone.
Finished(call) ==
  [call EXCEPT !.pc = "done", !.analysis = 0, !.payment = 0, !.total = 0,
               !.dists = << >>, !.i = 0, !.tx = 0, !.wallet = NULL,
               !.providers = NoProviders, !.quote = NoQuote, !.market = NULL,
               !.sentiment = NULL, !.fearGreedIndex = 0, !.report = NULL,
               !.summary = NULL]

\* res.status(code).json(body): the handler is finished.
Respond(call, code, body) == [Finished(call) EXCEPT !.resp = code, !.body = body]

TypeOK ==
  /\ now \in 1..(MaxClock + 1)
  /\ DOMAIN calls = Slots
  /\ platformWallet \in [WalletServices -> BOOLEAN]
  /\ stakeholders \in StakeholderConfigs
  /\ Len(analyses) <= MaxAnalyses
  /\ DOMAIN users = Users

Init ==
  /\ payments = << >>
  /\ analyses = << >>
  /\ distributions = << >>
  /\ stakeholders \in StakeholderConfigs
  /\ transfers = << >>
  /\ platformWallet = [w \in WalletServices |-> FALSE]
  /\ now = 1
  /\ calls = [c \in Slots |-> IdleCall]
  /\ users = [u \in Users |-> [walletId |-> NULL]]

\* ------------------------------------------------- revenue distribution
\* totalAmount as a direct caller of distributePayment passes it: the
\* price of the payment, or any other number.
TotalAmounts == {25, 33}

\* The stakeholder lookup as it would be without the isActive filter.
AllStakeholders == stakeholders

\* prisma.stakeholder.findMany({ where: { isActive: true } })
ActiveStakeholders == SelectSeq(stakeholders, LAMBDA s : s.isActive)

\* totalAmount * (percentage / 100), kept exact in hundredths of a unit.
DistributionAmount(totalAmount, percentage) == totalAmount * percentage

\* The `distributions` array built from the active stakeholders, in order.
BuildDistributions(paymentId, totalAmount) ==
  [k \in 1..Len(ActiveStakeholders) |->
     [paymentId |-> paymentId,
      recipient |-> ActiveStakeholders[k].walletId,
      amount |-> DistributionAmount(totalAmount, ActiveStakeholders[k].percentage),
      type |-> ActiveStakeholders[k].type,
      status |-> "pending",
      txHash |-> 0]]

\* prisma.paymentDistribution.updateMany({ where: { paymentId, recipient,
\* type }, data: { status, txHash? } }): every stored row the filter matches.
UpdateManyDistributions(d, status, txHash) ==
  [k \in DOMAIN distributions |->
     IF /\ distributions[k].paymentId = d.paymentId
        /\ distributions[k].recipient = d.recipient
        /\ distributions[k].type = d.type
       THEN [distributions[k] EXCEPT !.status = status,
                                     !.txHash = IF txHash = 0 THEN @ ELSE txHash]
       ELSE distributions[k]]

\* The WalletService instance a request's distributePayment runs on: the
\* webhook uses the one its PaymentService constructed.
WalletOf(call) ==
  IF call.req.op = "webhook" THEN "paymentService" ELSE call.req.ws

\* An error leaves the service call.  Behind the /webhook route it passes
\* handlePaymentWebhook's catch (rethrow), asyncHandler and errorHandler,
\* which answers error.status || 500; a direct caller sees the rejection.
Thrown(call, message) ==
  IF call.req.op = "webhook" THEN Respond(call, 500, message)
  ELSE [Finished(call) EXCEPT !.body = message]

\* distributePayment resolved: the webhook route acknowledges.
Returned(call) ==
  IF call.req.op = "webhook" THEN Respond(call, 200, "received")
  ELSE [Finished(call) EXCEPT !.body = "resolved"]

\* distributePayment up to its first await: the platform-wallet guard.
DistributeEntered(call) ==
  IF platformWallet[WalletOf(call)]
    THEN [call EXCEPT !.distInvoked = TRUE, !.pc = "dp_findPayment"]
    ELSE Thrown([call EXCEPT !.distInvoked = TRUE], "Platform wallet not initialized")

\* ------------------------------------------------------ payment updates
\* The completion data as it would be if it also wrote the amount.
CompletedData_WithAmount(p, hash) ==
  [p EXCEPT !.status = "COMPLETED", !.transactionHash = hash, !.completedAt = now,
            !.amount = 0]

\* data: { status: 'COMPLETED', transactionHash, completedAt: new Date() };
\* Prisma leaves a field alone when the value given for it is undefined.
CompletedData(p, hash) ==
  [p EXCEPT !.status = "COMPLETED",
            !.transactionHash = IF hash = NULL THEN @ ELSE hash,
            !.completedAt = now]

\* data: { status: 'FAILED' }
FailedData(p) == [p EXCEPT !.status = "FAILED"]

\* ------------------------------- PaymentService.handlePaymentWebhook
\* POST /webhook of the payment router: the route reads the signature
\* header and passes it on; handlePaymentWebhook never looks at it (the
\* verification is commented out).  The payload is destructured and the
\* handler runs to the update its status selects; any other status falls
\* through both branches and the route acknowledges.
WebhookEntered(c, ref, status, hash, sig) ==
  LET req == Request("webhook", NULL, ref, status, hash, 0, NULL, NULL)
      entered == [Enter(c, req, "wh_update") EXCEPT !.sig = sig]
  IN CASE status = "completed" -> entered
       [] status = "failed" -> [entered EXCEPT !.pc = "wh_failed"]
       [] OTHER -> Respond(entered, 200, "received")

BeginWebhook(c, ref, status, hash, sig) ==
  /\ Free(c)
  /\ calls' = [calls EXCEPT ![c] = WebhookEntered(c, ref, status, hash, sig)]
  /\ UNCHANGED <<users, payments, analyses, distributions, stakeholders, transfers,
                 platformWallet, now>>

\* await prisma.payment.update({ where: { id }, data: COMPLETED ... }):
\* rejects when no such row exists, else writes whatever the row held.
WebhookUpdate(c) ==
  /\ calls[c].pc = "wh_update"
  /\ LET ref == calls[c].req.ref
     IN IF PaymentExists(ref)
          THEN /\ payments' = [payments EXCEPT ![ref] = CompletedData(@, calls[c].req.hash)]
               /\ calls' = [calls EXCEPT ![c] =
                     [@ EXCEPT !.payment = ref, !.total = payments[ref].amount,
                               !.pc = "wh_hook_find"]]
          ELSE /\ calls' = [calls EXCEPT ![c] = Thrown(@, "Record to update not found")]
               /\ UNCHANGED payments
  /\ UNCHANGED <<users, analyses, distributions, stakeholders, transfers, platformWallet, now>>

\* processPaymentCompletion: await prisma.analysis.findFirst.  A rejected
\* storage call is rethrown by the hook's catch and by the webhook's.  With
\* no analysis bound to the payment the hook returns and distributePayment
\* is entered.
WebhookHookFind(c) ==
  /\ calls[c].pc = "wh_hook_find"
  /\ \E ok \in BOOLEAN :
       calls' = [calls EXCEPT ![c] =
         IF ~ok THEN Thrown([@ EXCEPT !.hookFailed = TRUE], "analysis.findFirst rejected")
         ELSE IF FindAnalysisByPayment(@.payment) = 0 THEN DistributeEntered(@)
         ELSE [@ EXCEPT !.analysis = FindAnalysisByPayment(calls[c].payment),
                        !.pc = "wh_hook_update"]]
  /\ UNCHANGED <<users, payments, analyses, distributions, stakeholders, transfers,
                 platformWallet, now>>

\* processPaymentCompletion: await prisma.analysis.update({ status:
\* 'PROCESSING' }); on success the hook returns and distributePayment is
\* entered.
WebhookHookUpdate(c) ==
  /\ calls[c].pc = "wh_hook_update"
  /\ \E ok \in BOOLEAN :
       IF ok
         THEN /\ analyses' = [analyses EXCEPT ![calls[c].analysis].status = "PROCESSING"]
              /\ calls' = [calls EXCEPT ![c] = DistributeEntered(@)]
         ELSE /\ calls' = [calls EXCEPT ![c] =
                    Thrown([@ EXCEPT !.hookFailed = TRUE], "analysis.update rejected")]
              /\ UNCHANGED analyses
  /\ UNCHANGED <<users, payments, distributions, stakeholders, transfers, platformWallet, now>>

\* status === 'failed': await prisma.payment.update({ data: FAILED }).
WebhookFailed(c) ==
  /\ calls[c].pc = "wh_failed"
  /\ LET ref == calls[c].req.ref
     IN IF PaymentExists(ref)
          THEN /\ payments' = [payments EXCEPT ![ref] = FailedData(@)]
               /\ calls' = [calls EXCEPT ![c] = Respond(@, 200, "received")]
          ELSE /\ calls' = [calls EXCEPT ![c] = Thrown(@, "Record to update not found")]
               /\ UNCHANGED payments
  /\ UNCHANGED <<users, analyses, distributions, stakeholders, transfers, platformWallet, now>>

\* --------------------------------------- WalletService.distributePayment
\* A caller of the exported WalletService invokes distributePayment on one
\* of the constructed instances.
BeginDistribute(c, ws, ref, totalAmount) ==
  /\ Free(c)
  /\ Len(distributions) + Len(ActiveStakeholders) <= MaxRows
  /\ calls' = [calls EXCEPT ![c] =
       DistributeEntered(
         [Enter(c, Request("distribute", NULL, ref, NULL, NULL, 0, NULL, ws), "dp_findPayment")
            EXCEPT !.payment = ref, !.total = totalAmount])]
  /\ UNCHANGED <<users, payments, analyses, distributions, stakeholders, transfers,
                 platformWallet, now>>

\* await prisma.payment.findUnique: 'Payment not found' when absent.
DistributeFindPayment(c) ==
  /\ calls[c].pc = "dp_findPayment"
  /\ calls' = [calls EXCEPT ![c] =
       IF PaymentExists(@.payment) THEN [@ EXCEPT !.pc = "dp_findStakeholders"]
       ELSE Thrown(@, "Payment not found")]
  /\ UNCHANGED <<users, payments, analyses, distributions, stakeholders, transfers,
                 platformWallet, now>>

\* await prisma.stakeholder.findMany, then the amounts are computed.
DistributeFindStakeholders(c) ==
  /\ calls[c].pc = "dp_findStakeholders"
  /\ calls' = [calls EXCEPT ![c] =
       [@ EXCEPT !.dists = BuildDistributions(calls[c].payment, calls[c].total),
                 !.pc = "dp_createMany"]]
  /\ UNCHANGED <<users, payments, analyses, distributions, stakeholders, transfers,
                 platformWallet, now>>

\* The step as it would be if the rows were not persisted before the loop.
DistributeCreateMany_NotPersisted(c) ==
  /\ calls[c].pc = "dp_createMany"
  /\ calls' = [calls EXCEPT ![c] =
       IF Len(@.dists) = 0 THEN Returned(@)
       ELSE [@ EXCEPT !.i = 1, !.pc = "dp_transfer"]]
  /\ UNCHANGED <<users, payments, analyses, distributions, stakeholders, transfers,
                 platformWallet, now>>

\* await prisma.paymentDistribution.createMany; the transfer loop starts.
DistributeCreateMany(c) ==
  /\ calls[c].pc = "dp_createMany"
  /\ distributions' = distributions \o calls[c].dists
  /\ calls' = [calls EXCEPT ![c] =
       IF Len(@.dists) = 0 THEN Returned(@)
       ELSE [@ EXCEPT !.i = 1, !.pc = "dp_transfer"]]
  /\ UNCHANGED <<users, payments, analyses, stakeholders, transfers, platformWallet, now>>

\* await platformWallet.createTransfer(...); await transfer.wait(): the
\* custodian receives the request and the transfer succeeds or fails.
DistributeTransfer(c) ==
  /\ calls[c].pc = "dp_transfer"
  /\ \E ok \in BOOLEAN :
       /\ transfers' = Append(transfers,
            [paymentId |-> calls[c].payment,
             destination |-> calls[c].dists[calls[c].i].recipient,
             amount |-> calls[c].dists[calls[c].i].amount,
             ok |-> ok])
       /\ calls' = [calls EXCEPT ![c] =
            [@ EXCEPT !.tx = IF ok THEN Len(transfers) + 1 ELSE 0,
                      !.pc = IF ok THEN "dp_markCompleted" ELSE "dp_markFailed"]]
  /\ UNCHANGED <<users, payments, analyses, distributions, stakeholders, platformWallet, now>>

\* The loop's next iteration, or the end of distributePayment.
DistributeNext(call) ==
  IF call.i < Len(call.dists) THEN [call EXCEPT !.i = @ + 1, !.pc = "dp_transfer"]
  ELSE Returned(call)

\* await prisma.paymentDistribution.updateMany({ status: 'completed',
\* txHash: transfer.getTransactionHash() })
DistributeMarkCompleted(c) ==
  /\ calls[c].pc = "dp_markCompleted"
  /\ distributions' =
       UpdateManyDistributions(calls[c].dists[calls[c].i], "completed", calls[c].tx)
  /\ calls' = [calls EXCEPT ![c] = DistributeNext(@)]
  /\ UNCHANGED <<users, payments, analyses, stakeholders, transfers, platformWallet, now>>

\* catch: await prisma.paymentDistribution.updateMany({ status: 'failed' })
DistributeMarkFailed(c) ==
  /\ calls[c].pc = "dp_markFailed"
  /\ distributions' =
       UpdateManyDistributions(calls[c].dists[calls[c].i], "failed", 0)
  /\ calls' = [calls EXCEPT ![c] = DistributeNext(@)]
  /\ UNCHANGED <<users, payments, analyses, stakeholders, transfers, platformWallet, now>>

\* getPlatformWalletAddress on the wallet router's instance: the platform
\* wallet is created when the instance has none yet.
GetPlatformWalletAddress(c) ==
  /\ Free(c)
  /\ platformWallet' = [platformWallet EXCEPT !["walletRoutes"] = TRUE]
  /\ calls' = [calls EXCEPT ![c] =
       Respond(Enter(c, Request("platformAddress", NULL, 0, NULL, NULL, 0, NULL,
                                "walletRoutes"), "done"), 200, "address")]
  /\ UNCHANGED <<users, payments, analyses, distributions, stakeholders, transfers, now>>

\* ------------------------------------ the monolithic app's payment routes
\* app.post('/api/payments/webhook'): the headers are never read; only
\* 'completed' is acted on.
AppWebhookEntered(c, ref, status, hash, sig) ==
  LET req == Request("appWebhook", NULL, ref, status, hash, 0, NULL, NULL)
      entered == [Enter(c, req, "aw_update") EXCEPT !.sig = sig]
  IN IF status = "completed" THEN entered
     ELSE Respond(entered, 200, "received")

BeginAppWebhook(c, ref, status, hash, sig) ==
  /\ Free(c)
  /\ calls' = [calls EXCEPT ![c] = AppWebhookEntered(c, ref, status, hash, sig)]
  /\ UNCHANGED <<users, payments, analyses, distributions, stakeholders, transfers,
                 platformWallet, now>>

\* await prisma.payment.update(COMPLETED ...); the route's catch answers 500.
AppWebhookUpdate(c) ==
  /\ calls[c].pc = "aw_update"
  /\ LET ref == calls[c].req.ref
     IN IF PaymentExists(ref)
          THEN /\ payments' = [payments EXCEPT ![ref] = CompletedData(@, calls[c].req.hash)]
               /\ calls' = [calls EXCEPT ![c] = Respond(@, 200, "received")]
          ELSE /\ calls' = [calls EXCEPT ![c] = Respond(@, 500, "Webhook processing failed")]
               /\ UNCHANGED payments
  /\ UNCHANGED <<users, analyses, distributions, stakeholders, transfers, platformWallet, now>>

\* app.post('/api/payments/:paymentId/complete'): the mock completion; the
\* transaction hash is a fresh random string.
BeginComplete(c, ref, hash) ==
  /\ Free(c)
  /\ calls' = [calls EXCEPT ![c] =
       Enter(c, Request("complete", NULL, ref, "completed", hash, 0, NULL, NULL), "co_update")]
  /\ UNCHANGED <<users, payments, analyses, distributions, stakeholders, transfers,
                 platformWallet, now>>

CompleteUpdate(c) ==
  /\ calls[c].pc = "co_update"
  /\ LET ref == calls[c].req.ref
     IN IF PaymentExists(ref)
          THEN /\ payments' = [payments EXCEPT ![ref] = CompletedData(@, calls[c].req.hash)]
               /\ calls' = [calls EXCEPT ![c] = Respond(@, 200, "completed")]
          ELSE /\ calls' = [calls EXCEPT ![c] = Respond(@, 500, "Failed to complete payment")]
               /\ UNCHANGED payments
  /\ UNCHANGED <<users, analyses, distributions, stakeholders, transfers, platformWallet, now>>

\* ------------------------------------------- app.post('/api/analysis')
\* The price lookup; a falsy price answers 400 before anything is stored.
AppCreateEntered(c, user, type) ==
  LET req == Request("appCreate", user, 0, NULL, NULL, 0, type, NULL)
  IN IF PriceOf(type) = 0
       THEN Respond(Enter(c, req, "ac_createAnalysis"), 400, "Invalid analysis type")
       ELSE Enter(c, req, "ac_createAnalysis")

BeginAppCreate(c, user, type) ==
  /\ Free(c)
  /\ PriceOf(type) # 0 => Len(analyses) < MaxAnalyses
  /\ calls' = [calls EXCEPT ![c] = AppCreateEntered(c, user, type)]
  /\ UNCHANGED <<users, payments, analyses, distributions, stakeholders, transfers,
                 platformWallet, now>>

\* await prisma.analysis.create
AppCreateAnalysis(c) ==
  /\ calls[c].pc = "ac_createAnalysis"
  /\ analyses' = Append(analyses,
       NewAnalysis(calls[c].req.user, calls[c].req.type, PriceOf(calls[c].req.type)))
  /\ calls' = [calls EXCEPT ![c] =
       [@ EXCEPT !.analysis = Len(analyses) + 1, !.pc = "ac_createPayment"]]
  /\ UNCHANGED <<users, payments, distributions, stakeholders, transfers, platformWallet, now>>

\* await prisma.payment.create; when it rejects the route's catch answers
\* 500 and the analysis row stays as created.
AppCreatePayment(c) ==
  /\ calls[c].pc = "ac_createPayment"
  /\ \E ok \in BOOLEAN :
       IF ok
         THEN /\ payments' = Append(payments,
                   NewPayment(calls[c].req.user, PriceOf(calls[c].req.type)))
              /\ calls' = [calls EXCEPT ![c] =
                   [@ EXCEPT !.payment = Len(payments) + 1, !.pc = "ac_link"]]
         ELSE /\ calls' = [calls EXCEPT ![c] =
                   Respond(@, 500, "Failed to create analysis request")]
              /\ UNCHANGED payments
  /\ UNCHANGED <<users, analyses, distributions, stakeholders, transfers, platformWallet, now>>

\* await prisma.analysis.update({ data: { paymentId } })
AppCreateLink(c) ==
  /\ calls[c].pc = "ac_link"
  /\ analyses' = [analyses EXCEPT ![calls[c].analysis].paymentId = calls[c].payment]
  /\ calls' = [calls EXCEPT ![c] = Respond(@, 200, "pending_payment")]
  /\ UNCHANGED <<users, payments, distributions, stakeholders, transfers, platformWallet, now>>

\* ------------------------------------------------ createAnalysisRequest
\* schemas.createAnalysis: the values Joi accepts for `type`.
ValidatedTypes == {"BASIC_OVERVIEW", "TECHNICAL_ANALYSIS", "FUNDAMENTAL_ANALYSIS",
                   "PORTFOLIO_REVIEW", "MARKET_SENTIMENT", "DEFI_OPPORTUNITIES"}

\* createAnalysisRequest of the controller, reached through router.post('/')
\* (validateRequest first, 400 'Validation error') or called as the exported
\* handler without the middleware; then the price lookup, 400 when falsy.
CreateEntered(c, user, type, viaRoute) ==
  LET req == Request(IF viaRoute THEN "create" ELSE "createHandler",
                     user, 0, NULL, NULL, 0, type, NULL)
  IN IF viaRoute /\ type \notin ValidatedTypes
       THEN Respond(Enter(c, req, "cr_createAnalysis"), 400, "Validation error")
     ELSE IF PriceOf(type) = 0
       THEN Respond(Enter(c, req, "cr_createAnalysis"), 400, "Invalid analysis type")
     ELSE Enter(c, req, "cr_createAnalysis")

BeginCreate(c, user, type, viaRoute) ==
  /\ Free(c)
  /\ (~(viaRoute /\ type \notin ValidatedTypes) /\ PriceOf(type) # 0)
       => Len(analyses) < MaxAnalyses
  /\ calls' = [calls EXCEPT ![c] = CreateEntered(c, user, type, viaRoute)]
  /\ UNCHANGED <<users, payments, analyses, distributions, stakeholders, transfers,
                 platformWallet, now>>

\* await prisma.analysis.create; createPayment is entered.
CreateAnalysis(c) ==
  /\ calls[c].pc = "cr_createAnalysis"
  /\ analyses' = Append(analyses,
       NewAnalysis(calls[c].req.user, calls[c].req.type, PriceOf(calls[c].req.type)))
  /\ calls' = [calls EXCEPT ![c] =
       [@ EXCEPT !.analysis = Len(analyses) + 1, !.pc = "cp_create"]]
  /\ UNCHANGED <<users, payments, distributions, stakeholders, transfers, platformWallet, now>>

\* PaymentService.createPayment: await prisma.payment.create.
CreatePayment(c) ==
  /\ calls[c].pc = "cp_create"
  /\ payments' = Append(payments, NewPayment(calls[c].req.user, PriceOf(calls[c].req.type)))
  /\ calls' = [calls EXCEPT ![c] =
       [@ EXCEPT !.payment = Len(payments) + 1, !.pc = "cp_x402"]]
  /\ UNCHANGED <<users, analyses, distributions, stakeholders, transfers, platformWallet, now>>

\* The gateway call as it would be if a rejected intent were submitted once
\* more before giving up.
CreateX402Payment_Resubmit(c) ==
  /\ calls[c].pc = "cp_x402"
  /\ \E ok \in BOOLEAN :
       calls' = [calls EXCEPT ![c] =
         IF ok THEN [@ EXCEPT !.intentsSent = @ + 1, !.pc = "cp_update"]
         ELSE IF @.intentsSent = 0 THEN [@ EXCEPT !.intentsSent = @ + 1]
         ELSE Respond([@ EXCEPT !.intentsSent = @ + 1], 500,
                      "Failed to create analysis request")]
  /\ UNCHANGED <<users, payments, analyses, distributions, stakeholders, transfers,
                 platformWallet, now>>

\* createX402Payment: await axios.post to the gateway.  A rejection is
\* rethrown by createX402Payment and by createPayment and the controller's
\* catch answers 500; the rows created so far stay.
CreateX402Payment(c) ==
  /\ calls[c].pc = "cp_x402"
  /\ \E ok \in BOOLEAN :
       calls' = [calls EXCEPT ![c] =
         IF ok THEN [@ EXCEPT !.intentsSent = @ + 1, !.pc = "cp_update"]
         ELSE Respond([@ EXCEPT !.intentsSent = @ + 1], 500,
                      "Failed to create analysis request")]
  /\ UNCHANGED <<users, payments, analyses, distributions, stakeholders, transfers,
                 platformWallet, now>>

\* createPayment: await prisma.payment.update({ data: { x402PaymentId } });
\* the payment id is returned to the controller.
CreatePaymentUpdate(c) ==
  /\ calls[c].pc = "cp_update"
  /\ payments' = [payments EXCEPT ![calls[c].payment].x402PaymentId = "x402-intent"]
  /\ calls' = [calls EXCEPT ![c] = [@ EXCEPT !.pc = "cr_link"]]
  /\ UNCHANGED <<users, analyses, distributions, stakeholders, transfers, platformWallet, now>>

\* await prisma.analysis.update({ data: { paymentId } }); the response
\* carries analysisId, paymentId and price.
CreateLink(c) ==
  /\ calls[c].pc = "cr_link"
  /\ analyses' = [analyses EXCEPT ![calls[c].analysis].paymentId = calls[c].payment]
  /\ calls' = [calls EXCEPT ![c] =
       [Respond(@, 200, "pending_payment") EXCEPT !.ret = calls[c].analysis]]
  /\ UNCHANGED <<users, payments, distributions, stakeholders, transfers, platformWallet, now>>

\* ------------------------------------------------------ processAnalysis
\* The gate as it would be if it only looked for a PENDING payment.
PaymentGateClosed_OnlyPending(aid) == LinkedPaymentStatus(aid) = "PENDING"

\* The gate as it would be if it only refused an analysis without payment.
PaymentGateClosed_NoPaymentOnly(aid) == LinkedPaymentStatus(aid) = NULL

\* analysis.payment?.status !== 'COMPLETED'
PaymentGateClosed(aid) == LinkedPaymentStatus(aid) # "COMPLETED"

\* processAnalysis up to its first await; req.user (set by authenticate
\* when the request came through the route) is never read.
ProcessEntered(c, user, aid) ==
  Enter(c, Request("process", user, 0, NULL, NULL, aid, NULL, NULL), "pa_find")

BeginProcess(c, aid) ==
  /\ Free(c)
  /\ calls' = [calls EXCEPT ![c] = ProcessEntered(c, NULL, aid)]
  /\ UNCHANGED <<users, payments, analyses, distributions, stakeholders, transfers,
                 platformWallet, now>>

\* await prisma.analysis.findUnique({ include: { payment: true } }), the
\* 404, the payment gate, and the PROCESSING guard.
ProcessFind(c) ==
  /\ calls[c].pc = "pa_find"
  /\ LET aid == calls[c].req.aid
     IN calls' = [calls EXCEPT ![c] =
          IF ~AnalysisExists(aid) THEN Respond(@, 404, "Analysis not found")
          ELSE IF PaymentGateClosed(aid) THEN Respond(@, 400, "Payment not completed")
          ELSE IF analyses[aid].status # "PROCESSING" THEN [@ EXCEPT !.pc = "pa_setProcessing"]
          ELSE [@ EXCEPT !.pc = "pa_fetch", !.fetched = TRUE]]
  /\ UNCHANGED <<users, payments, analyses, distributions, stakeholders, transfers,
                 platformWallet, now>>

\* await prisma.analysis.update({ status: 'PROCESSING' }); the two data
\* fetches are started.
ProcessSetProcessing(c) ==
  /\ calls[c].pc = "pa_setProcessing"
  /\ analyses' = [analyses EXCEPT ![calls[c].req.aid].status = "PROCESSING"]
  /\ calls' = [calls EXCEPT ![c] = [@ EXCEPT !.pc = "pa_fetch", !.fetched = TRUE]]
  /\ UNCHANGED <<users, payments, distributions, stakeholders, transfers, platformWallet, now>>

\* Promise.all as it would be if it were Promise.race: the handler goes on
\* with the first fetch that succeeded.
AfterFetch_FirstSettled(call) ==
  IF call.quote.ok \/ call.market = "ok" THEN "pa_fearGreed"
  ELSE IF call.quote # NoQuote /\ call.market = "failed" THEN "pa_markFailed"
  ELSE "pa_fetch"

\* Where processAnalysis is after one of the two promises handed to
\* Promise.all settled: Promise.all rejects with the first rejection (the
\* catch is entered), resolves when both are fulfilled, and is pending else.
AfterFetch(call) ==
  IF (call.quote # NoQuote /\ ~call.quote.ok) \/ call.market = "failed" THEN "pa_markFailed"
  ELSE IF call.quote.ok /\ call.market = "ok" THEN "pa_fearGreed"
  ELSE "pa_fetch"

\* dataService.getCryptoData(symbol) settles.
ProcessFetchQuote(c) ==
  /\ calls[c].pc = "pa_fetch"
  /\ calls[c].quote = NoQuote
  /\ \E primaryOk \in BOOLEAN, secondaryOk \in BOOLEAN :
       LET settled == [calls[c] EXCEPT
                         !.providers = [primaryOk |-> primaryOk, secondaryOk |-> secondaryOk],
                         !.quote = GetCryptoData(primaryOk, secondaryOk)]
       IN calls' = [calls EXCEPT ![c] = [settled EXCEPT !.pc = AfterFetch(settled)]]
  /\ UNCHANGED <<users, payments, analyses, distributions, stakeholders, transfers,
                 platformWallet, now>>

\* dataService.getMarketData() settles: the global metrics, or the error
\* 'Failed to fetch market data'.
ProcessFetchMarket(c) ==
  /\ calls[c].pc = "pa_fetch"
  /\ calls[c].market = NULL
  /\ \E marketOk \in BOOLEAN :
       LET settled == [calls[c] EXCEPT !.market = IF marketOk THEN "ok" ELSE "failed"]
       IN calls' = [calls EXCEPT ![c] = [settled EXCEPT !.pc = AfterFetch(settled)]]
  /\ UNCHANGED <<users, payments, analyses, distributions, stakeholders, transfers,
                 platformWallet, now>>

\* await Promise.all([getCryptoData(symbol), getMarketData()]): the two
\* requests were started together and settle in either order.
ProcessFetch(c) ==
  \/ ProcessFetchQuote(c)
  \/ ProcessFetchMarket(c)

\* The sentiment step as it would be if getFearGreedIndex let its error out.
ProcessFearGreed_Propagates(c) ==
  /\ calls[c].pc = "pa_fearGreed"
  /\ \E ok \in BOOLEAN :
       calls' = [calls EXCEPT ![c] =
         IF ok THEN [@ EXCEPT !.sentiment = "fetched",
                              !.fearGreedIndex = ReportedFearGreed,
                              !.pc = "pa_generate", !.generated = TRUE]
         ELSE [@ EXCEPT !.sentiment = "failed", !.pc = "pa_markFailed"]]
  /\ UNCHANGED <<users, payments, analyses, distributions, stakeholders, transfers,
                 platformWallet, now>>

\* await dataService.getFearGreedIndex(): never rejects; the generation is
\* started with the index it returned.
ProcessFearGreed(c) ==
  /\ calls[c].pc = "pa_fearGreed"
  /\ \E ok \in BOOLEAN :
       calls' = [calls EXCEPT ![c] =
         [@ EXCEPT !.sentiment = IF ok THEN "fetched" ELSE "failed",
                   !.fearGreedIndex = GetFearGreedIndex(ok),
                   !.pc = "pa_generate", !.generated = TRUE]]
  /\ UNCHANGED <<users, payments, analyses, distributions, stakeholders, transfers,
                 platformWallet, now>>

\* The text BedrockService.generateAnalysis returns: made from the category,
\* the quote and the market data with the index.
GenerateAnalysis(type, quote, fearGreedIndex) ==
  "report on " \o type \o " quoted by " \o quote.source

\* The text BedrockService.generateExecutiveSummary returns for a report.
GenerateExecutiveSummary(analysisResult) == "summary of " \o analysisResult

\* await bedrockService.generateAnalysis(type, cryptoData,
\* enhancedMarketData, parameters): the report text, or the error
\* 'Failed to generate AI analysis' and the catch.
ProcessGenerate(c) ==
  /\ calls[c].pc = "pa_generate"
  /\ \E ok \in BOOLEAN :
       calls' = [calls EXCEPT ![c] =
         IF ok THEN [@ EXCEPT !.report = GenerateAnalysis(analyses[calls[c].req.aid].type,
                                                          calls[c].quote,
                                                          calls[c].fearGreedIndex),
                              !.pc = "pa_summary"]
         ELSE [@ EXCEPT !.pc = "pa_markFailed"]]
  /\ UNCHANGED <<users, payments, analyses, distributions, stakeholders, transfers,
                 platformWallet, now>>

\* await bedrockService.generateExecutiveSummary(analysisResult)
ProcessSummary(c) ==
  /\ calls[c].pc = "pa_summary"
  /\ \E ok \in BOOLEAN :
       calls' = [calls EXCEPT ![c] =
         IF ok THEN [@ EXCEPT !.summary = GenerateExecutiveSummary(calls[c].report),
                              !.pc = "pa_save"]
         ELSE [@ EXCEPT !.pc = "pa_markFailed"]]
  /\ UNCHANGED <<users, payments, analyses, distributions, stakeholders, transfers,
                 platformWallet, now>>

\* The save as it would be if it stored the status without the result.
ProcessSave_NoResult(c) ==
  /\ calls[c].pc = "pa_save"
  /\ analyses' = [analyses EXCEPT ![calls[c].req.aid] =
       [@ EXCEPT !.status = "COMPLETED", !.completedAt = now]]
  /\ calls' = [calls EXCEPT ![c] = Respond(@, 200, "completed")]
  /\ UNCHANGED <<users, payments, distributions, stakeholders, transfers, platformWallet, now>>

\* await prisma.analysis.update({ status: 'COMPLETED', result, completedAt })
ProcessSave(c) ==
  /\ calls[c].pc = "pa_save"
  /\ analyses' = [analyses EXCEPT ![calls[c].req.aid] =
       [@ EXCEPT !.status = "COMPLETED",
                 !.result = [fullAnalysis |-> calls[c].report,
                             executiveSummary |-> calls[c].summary,
                             fearGreedIndex |-> calls[c].fearGreedIndex],
                 !.completedAt = now]]
  /\ calls' = [calls EXCEPT ![c] = Respond(@, 200, "completed")]
  /\ UNCHANGED <<users, payments, distributions, stakeholders, transfers, platformWallet, now>>

\* The catch as it would be if it only answered, without the FAILED write.
ProcessMarkFailed_NoWrite(c) ==
  /\ calls[c].pc = "pa_markFailed"
  /\ calls' = [calls EXCEPT ![c] = Respond(@, 500, "Failed to process analysis")]
  /\ UNCHANGED <<users, payments, analyses, distributions, stakeholders, transfers,
                 platformWallet, now>>

\* catch: await prisma.analysis.update({ status: 'FAILED' }); 500.
ProcessMarkFailed(c) ==
  /\ calls[c].pc = "pa_markFailed"
  /\ analyses' = [analyses EXCEPT ![calls[c].req.aid].status = "FAILED"]
  /\ calls' = [calls EXCEPT ![c] = Respond(@, 500, "Failed to process analysis")]
  /\ UNCHANGED <<users, payments, distributions, stakeholders, transfers, platformWallet, now>>

\* ---------------------- app.post('/api/analysis/:analysisId/process')
AppProcessEntered(c, user, aid) ==
  Enter(c, Request("appProcess", user, 0, NULL, NULL, aid, NULL, NULL), "ap_find")

BeginAppProcess(c, aid) ==
  /\ Free(c)
  /\ calls' = [calls EXCEPT ![c] = AppProcessEntered(c, NULL, aid)]
  /\ UNCHANGED <<users, payments, analyses, distributions, stakeholders, transfers,
                 platformWallet, now>>

AppProcessFind(c) ==
  /\ calls[c].pc = "ap_find"
  /\ LET aid == calls[c].req.aid
     IN calls' = [calls EXCEPT ![c] =
          IF ~AnalysisExists(aid) THEN Respond(@, 404, "Analysis not found")
          ELSE IF PaymentGateClosed(aid) THEN Respond(@, 400, "Payment not completed")
          ELSE [@ EXCEPT !.pc = "ap_setProcessing"]]
  /\ UNCHANGED <<users, payments, analyses, distributions, stakeholders, transfers,
                 platformWallet, now>>

\* await prisma.analysis.update({ status: 'PROCESSING' }); the mock report
\* and summary are generated synchronously.
AppProcessSetProcessing(c) ==
  /\ calls[c].pc = "ap_setProcessing"
  /\ analyses' = [analyses EXCEPT ![calls[c].req.aid].status = "PROCESSING"]
  /\ calls' = [calls EXCEPT ![c] =
       [@ EXCEPT !.pc = "ap_save", !.fetched = TRUE, !.generated = TRUE]]
  /\ UNCHANGED <<users, payments, distributions, stakeholders, transfers, platformWallet, now>>

AppProcessSave(c) ==
  /\ calls[c].pc = "ap_save"
  /\ analyses' = [analyses EXCEPT ![calls[c].req.aid] =
       [@ EXCEPT !.status = "COMPLETED",
                 !.result = [fullAnalysis |-> "mock report", executiveSummary |-> "mock summary",
                             fearGreedIndex |-> 62],
                 !.completedAt = now]]
  /\ calls' = [calls EXCEPT ![c] = Respond(@, 200, "completed")]
  /\ UNCHANGED <<users, payments, distributions, stakeholders, transfers, platformWallet, now>>

\* ---------------------------------------------------------- getAnalysis
\* The filter as it would be without the userId condition.
FindOwnedAnalysis_AnyOwner(analysisId, userId) ==
  IF AnalysisExists(analysisId) THEN analysisId ELSE 0

\* prisma.analysis.findFirst({ where: { id: analysisId, userId } }): the
\* id of the row found, 0 (null) when no row passes both conditions.
FindOwnedAnalysis(analysisId, userId) ==
  IF AnalysisExists(analysisId) /\ analyses[analysisId].userId = userId
    THEN analysisId ELSE 0

\* getAnalysis of the controller, behind authenticate.
GetAnalysisEntered(c, user, aid) ==
  Enter(c, Request("getAnalysis", user, 0, NULL, NULL, aid, NULL, NULL), "ga_find")

BeginGetAnalysis(c, user, aid) ==
  /\ Free(c)
  /\ calls' = [calls EXCEPT ![c] = GetAnalysisEntered(c, user, aid)]
  /\ UNCHANGED <<users, payments, analyses, distributions, stakeholders, transfers,
                 platformWallet, now>>

\* await prisma.analysis.findFirst; 404 when null, else the row is sent.
GetAnalysisFind(c) ==
  /\ calls[c].pc = "ga_find"
  /\ LET found == FindOwnedAnalysis(calls[c].req.aid, calls[c].req.user)
     IN calls' = [calls EXCEPT ![c] =
          IF found = 0 THEN Respond(@, 404, "Analysis not found")
          ELSE [Respond(@, 200, "analysis") EXCEPT !.ret = found]]
  /\ UNCHANGED <<users, payments, analyses, distributions, stakeholders, transfers,
                 platformWallet, now>>

\* app.get('/api/analysis/:analysisId'): the same lookup in the monolith.
AppGetAnalysisEntered(c, user, aid) ==
  Enter(c, Request("appGetAnalysis", user, 0, NULL, NULL, aid, NULL, NULL), "ag_find")

BeginAppGetAnalysis(c, user, aid) ==
  /\ Free(c)
  /\ calls' = [calls EXCEPT ![c] = AppGetAnalysisEntered(c, user, aid)]
  /\ UNCHANGED <<users, payments, analyses, distributions, stakeholders, transfers,
                 platformWallet, now>>

AppGetAnalysisFind(c) ==
  /\ calls[c].pc = "ag_find"
  /\ LET found == FindOwnedAnalysis(calls[c].req.aid, calls[c].req.user)
     IN calls' = [calls EXCEPT ![c] =
          IF found = 0 THEN Respond(@, 404, "Analysis not found")
          ELSE [Respond(@, 200, "analysis") EXCEPT !.ret = found]]
  /\ UNCHANGED <<users, payments, analyses, distributions, stakeholders, transfers,
                 platformWallet, now>>

\* ------------------------------------------------------- getUserAnalyses
\* where: { userId }, orderBy: { createdAt: 'desc' }: the ids of the user's
\* analyses, newest first.
RECURSIVE OwnedNewestFirst(_, _)
OwnedNewestFirst(userId, n) ==
  IF n = 0 THEN << >>
  ELSE IF analyses[n].userId = userId THEN <<n>> \o OwnedNewestFirst(userId, n - 1)
  ELSE OwnedNewestFirst(userId, n - 1)

\* skip / take on a list: take >= 0 counts from the skipped position on, a
\* negative take counts back from the end.
SkipTake(rows, skip, take) ==
  IF take >= 0
    THEN SubSeq(rows, skip + 1, IF skip + take < Len(rows) THEN skip + take ELSE Len(rows))
    ELSE SubSeq(rows, IF Len(rows) - skip + take + 1 > 1 THEN Len(rows) - skip + take + 1 ELSE 1,
                Len(rows) - skip)

\* getUserAnalyses of the controller and of the monolith (the same code):
\* page and limit are taken from the query string, defaulted, converted
\* with Number() and used to build the findMany call.
UserAnalysesEntered(c, user, page, limit) ==
  [Enter(c, Request("getUserAnalyses", user, 0, NULL, NULL, 0, NULL, NULL), "ul_findMany")
     EXCEPT !.query = PageQuery(page, limit)]

BeginGetUserAnalyses(c, user, page, limit) ==
  /\ Free(c)
  /\ calls' = [calls EXCEPT ![c] = UserAnalysesEntered(c, user, page, limit)]
  /\ UNCHANGED <<users, payments, analyses, distributions, stakeholders, transfers,
                 platformWallet, now>>

\* await prisma.analysis.findMany({ where, orderBy, skip, take }): the
\* query is issued as built.  The storage layer answers a well-formed query
\* with the page; one that is not well-formed it rejects (the catch answers
\* 500) or answers with some rows.
UserAnalysesFindMany(c) ==
  /\ calls[c].pc = "ul_findMany"
  /\ LET q == calls[c].query
         rows == OwnedNewestFirst(calls[c].req.user, Len(analyses))
     IN IF WellFormedQuery(q)
          THEN calls' = [calls EXCEPT ![c] =
                 [@ EXCEPT !.issued = TRUE, !.pc = "ul_count",
                           !.listed = SkipTake(rows, q.skip.val, q.take.val)]]
          ELSE \/ calls' = [calls EXCEPT ![c] =
                      Respond([@ EXCEPT !.issued = TRUE], 500, "Failed to get analyses")]
               \/ \E answer \in {<< >>, rows} :
                    calls' = [calls EXCEPT ![c] =
                      [@ EXCEPT !.issued = TRUE, !.pc = "ul_count", !.listed = answer]]
  /\ UNCHANGED <<users, payments, analyses, distributions, stakeholders, transfers,
                 platformWallet, now>>

\* await prisma.analysis.count({ where: { userId } }); the response carries
\* the page and the total.
UserAnalysesCount(c) ==
  /\ calls[c].pc = "ul_count"
  /\ calls' = [calls EXCEPT ![c] =
       [Respond(@, 200, "analyses")
          EXCEPT !.ret = Len(OwnedNewestFirst(calls[c].req.user, Len(analyses)))]]
  /\ UNCHANGED <<users, payments, analyses, distributions, stakeholders, transfers,
                 platformWallet, now>>

\* --------------------------------------------------------- wallet create
\* The ids the custodian gives the wallets it creates.
CoinbaseWalletIds == {"cb1", "cb2"}

\* The custodian never gives out an id twice.
FreshWalletIds ==
  CoinbaseWalletIds \ ({users[u].walletId : u \in Users} \cup {calls[c].wallet : c \in Slots})

\* `wallet_${userId}_${Date.now()}`
MockWalletId(userId, time) == "wallet_" \o userId \o "_" \o ToString(time)

\* router.post('/create') of the wallet router: authenticate looks the user
\* up.
BeginWalletCreate(c, user) ==
  /\ Free(c)
  /\ calls' = [calls EXCEPT ![c] =
       Enter(c, Request("walletCreate", user, 0, NULL, NULL, 0, NULL, "walletRoutes"),
             "wc_auth")]
  /\ UNCHANGED <<users, payments, analyses, distributions, stakeholders, transfers,
                 platformWallet, now>>

\* authenticate's findUnique resolved: req.user is the row as read now.  The
\* handler rejects a user whose row holds a wallet, else createUserWallet
\* asks the custodian for a wallet.
WalletCreateCheck(c) ==
  /\ calls[c].pc = "wc_auth"
  /\ calls' = [calls EXCEPT ![c] =
       IF users[@.req.user].walletId # NULL
         THEN Respond(@, 400, "User already has a wallet")
         ELSE [@ EXCEPT !.pc = "wc_createWallet"]]
  /\ UNCHANGED <<users, payments, analyses, distributions, stakeholders, transfers,
                 platformWallet, now>>

\* createUserWallet: await this.coinbase.createWallet(); a rejection is
\* rethrown and errorHandler answers 500.
WalletCreateCoinbase(c) ==
  /\ calls[c].pc = "wc_createWallet"
  /\ \/ \E id \in FreshWalletIds :
          calls' = [calls EXCEPT ![c] = [@ EXCEPT !.wallet = id, !.pc = "wc_update"]]
     \/ calls' = [calls EXCEPT ![c] = Respond(@, 500, "createWallet rejected")]
  /\ UNCHANGED <<users, payments, analyses, distributions, stakeholders, transfers,
                 platformWallet, now>>

\* createUserWallet: await prisma.user.update({ data: { walletId } }); the
\* route answers with the wallet id.
WalletCreateUpdate(c) ==
  /\ calls[c].pc = "wc_update"
  /\ users' = [users EXCEPT ![calls[c].req.user].walletId = calls[c].wallet]
  /\ calls' = [calls EXCEPT ![c] = Respond(@, 200, calls[c].wallet)]
  /\ UNCHANGED <<payments, analyses, distributions, stakeholders, transfers,
                 platformWallet, now>>

\* app.post('/api/wallet/create') of the monolith.
BeginAppWalletCreate(c, user) ==
  /\ Free(c)
  /\ calls' = [calls EXCEPT ![c] =
       Enter(c, Request("appWalletCreate", user, 0, NULL, NULL, 0, NULL, NULL), "awc_auth")]
  /\ UNCHANGED <<users, payments, analyses, distributions, stakeholders, transfers,
                 platformWallet, now>>

\* authenticate resolved; the check, then the mock wallet id is made from
\* the user id and the clock.
AppWalletCreateCheck(c) ==
  /\ calls[c].pc = "awc_auth"
  /\ calls' = [calls EXCEPT ![c] =
       IF users[@.req.user].walletId # NULL
         THEN Respond(@, 400, "User already has a wallet")
         ELSE [@ EXCEPT !.wallet = MockWalletId(calls[c].req.user, now),
                        !.pc = "awc_update"]]
  /\ UNCHANGED <<users, payments, analyses, distributions, stakeholders, transfers,
                 platformWallet, now>>

\* await prisma.user.update({ data: { walletId: mockWalletId } })
AppWalletCreateUpdate(c) ==
  /\ calls[c].pc = "awc_update"
  /\ users' = [users EXCEPT ![calls[c].req.user].walletId = calls[c].wallet]
  /\ calls' = [calls EXCEPT ![c] = Respond(@, 200, calls[c].wallet)]
  /\ UNCHANGED <<payments, analyses, distributions, stakeholders, transfers,
                 platformWallet, now>>

\* Time passes between two reads of new Date().
Tick ==
  /\ now <= MaxClock
  /\ now' = now + 1
  /\ UNCHANGED <<users, payments, analyses, distributions, stakeholders, transfers,
                 platformWallet, calls>>

\* ------------------------------------------------------ route dispatch
\* A segment of a route's path: a literal, or a parameter (`:name`).
Lit(name) == [param |-> FALSE, name |-> name]
Param(name) == [param |-> TRUE, name |-> name]

Route(method, path, handler) == [method |-> method, path |-> path, handler |-> handler]

\* The analysis routes in the order they are registered, the paths relative
\* to /api/analysis; the router and the monolithic app register the same
\* five in the same order.
AnalysisRoutes ==
  << Route("GET", << Lit("types") >>, "getAnalysisTypes"),
     Route("POST", << >>, "createAnalysisRequest"),
     Route("GET", << Param("analysisId") >>, "getAnalysis"),
     Route("POST", << Param("analysisId"), Lit("process") >>, "processAnalysis"),
     Route("GET", << Lit("user") >>, "getUserAnalyses") >>

\* Express matches a request against the routes in registration order: a
\* route matches when the method is its own and every segment of the path
\* equals its literal or stands for its parameter.  The first match handles
\* the request (none of these handlers calls next()); with no match the
\* app's '*' handler answers 404.
Dispatch(method, path) ==
  LET hit == {k \in DOMAIN AnalysisRoutes :
                /\ AnalysisRoutes[k].method = method
                /\ Len(AnalysisRoutes[k].path) = Len(path)
                /\ \A i \in DOMAIN path :
                     AnalysisRoutes[k].path[i].param \/ AnalysisRoutes[k].path[i].name = path[i]}
  IN IF hit = {} THEN "notFound"
     ELSE AnalysisRoutes[CHOOSE k \in hit : \A j \in hit : k <= j].handler

\* The request paths tried: the collection, /types, /user, the id of the
\* first analysis row, and its /process.
RoutePaths == { << >>, <<"types">>, <<"user">>, <<"a1">>, <<"a1", "process">> }

Methods == {"GET", "POST"}

\* The two Express applications that register the analysis routes.
Apps == {"router", "app"}

\* req.params.analysisId as a row id: "a1" is the id of the first analysis
\* row; any other string is the id of no row.
ParamId(path) == IF path # << >> /\ path[1] = "a1" THEN 1 ELSE 0

\* A request to the analysis routes of `app`: authenticate has set req.user;
\* the handler of the first matching route runs to its first await.
RouteRequest(c, app, method, path, user, type) ==
  /\ Free(c)
  /\ (Dispatch(method, path) = "createAnalysisRequest" /\ app = "app" /\ PriceOf(type) # 0)
       => Len(analyses) < MaxAnalyses
  /\ LET handler == Dispatch(method, path)
         none == Request("none", user, 0, NULL, NULL, 0, NULL, NULL)
         entered ==
           CASE handler = "getAnalysisTypes" ->
                  Respond(Enter(c, Request("getAnalysisTypes", NULL, 0, NULL, NULL, 0, NULL, NULL),
                                "done"), 200, "types")
             [] handler = "createAnalysisRequest" ->
                  IF app = "router" THEN CreateEntered(c, user, type, TRUE)
                  ELSE AppCreateEntered(c, user, type)
             [] handler = "getAnalysis" ->
                  IF app = "router" THEN GetAnalysisEntered(c, user, ParamId(path))
                  ELSE AppGetAnalysisEntered(c, user, ParamId(path))
             [] handler = "processAnalysis" ->
                  IF app = "router" THEN ProcessEntered(c, user, ParamId(path))
                  ELSE AppProcessEntered(c, user, ParamId(path))
             [] handler = "getUserAnalyses" -> UserAnalysesEntered(c, user, NULL, NULL)
             [] OTHER -> Respond(Enter(c, none, "done"), 404, "Route not found")
     IN calls' = [calls EXCEPT ![c] = [entered EXCEPT !.method = method, !.path = path]]
  /\ UNCHANGED <<users, payments, analyses, distributions, stakeholders, transfers,
                 platformWallet, now>>

\* ------------------------------------------------------- specifications
\* payload.reference / :paymentId: the id of a payment that may exist, or
\* (0) a missing reference or the id of no payment.
PaymentRefs == 0..MaxAnalyses

CreateOps(c) ==
  \/ \E u \in Users, t \in RequestTypes : BeginAppCreate(c, u, t)
  \/ AppCreateAnalysis(c)
  \/ AppCreatePayment(c)
  \/ AppCreateLink(c)

WebhookOps(c) ==
  \/ \E ref \in PaymentRefs, st \in PayloadStatuses, h \in Hashes, sig \in GatewaySignatures :
       BeginWebhook(c, ref, st, h, sig)
  \/ WebhookUpdate(c)
  \/ WebhookHookFind(c)
  \/ WebhookHookUpdate(c)
  \/ WebhookFailed(c)

AppPaymentOps(c) ==
  \/ \E ref \in PaymentRefs, st \in PayloadStatuses, h \in Hashes, sig \in GatewaySignatures :
       BeginAppWebhook(c, ref, st, h, sig)
  \/ AppWebhookUpdate(c)
  \/ \E ref \in PaymentRefs, h \in RandomHashes : BeginComplete(c, ref, h)
  \/ CompleteUpdate(c)

ProcessOps(c) ==
  \/ \E aid \in 1..MaxAnalyses : BeginProcess(c, aid)
  \/ ProcessFind(c)
  \/ ProcessSetProcessing(c)
  \/ ProcessFetch(c)
  \/ ProcessFearGreed(c)
  \/ ProcessGenerate(c)
  \/ ProcessSummary(c)
  \/ ProcessSave(c)
  \/ ProcessMarkFailed(c)

AppProcessOps(c) ==
  \/ \E aid \in 1..MaxAnalyses : BeginAppProcess(c, aid)
  \/ AppProcessFind(c)
  \/ AppProcessSetProcessing(c)
  \/ AppProcessSave(c)

DistributeOps(c) ==
  \/ \E ws \in WalletServices, ref \in PaymentRefs, x \in TotalAmounts :
       BeginDistribute(c, ws, ref, x)
  \/ DistributeFindPayment(c)
  \/ DistributeFindStakeholders(c)
  \/ DistributeCreateMany(c)
  \/ DistributeTransfer(c)
  \/ DistributeMarkCompleted(c)
  \/ DistributeMarkFailed(c)
  \/ GetPlatformWalletAddress(c)

\* The request handlers of the payment-gated workflow, one request at a time.
Next ==
  \/ CreateOps(1)
  \/ WebhookOps(1)
  \/ AppPaymentOps(1)
  \/ ProcessOps(1)
  \/ AppProcessOps(1)

Spec == Init /\ [][Next]_vars

\* The same handlers with time passing between them.
NextClock == Next \/ Tick

SpecClock == Init /\ [][NextClock]_vars

\* Payment completion and the revenue distribution engine, one call at a time.
NextDist ==
  \/ CreateOps(1)
  \/ WebhookOps(1)
  \/ DistributeOps(1)

SpecDist == Init /\ [][NextDist]_vars

\* Two webhook deliveries interleaving at their awaits.
NextConc ==
  \/ CreateOps(1)
  \/ \E c \in Slots : WebhookOps(c)

SpecConc == Init /\ [][NextConc]_vars

\* Webhook deliveries carrying any signature header, against both webhook
\* implementations.
SignedWebhookOps(c) ==
  \/ \E ref \in PaymentRefs, st \in PayloadStatuses, h \in Hashes, sig \in Signatures :
       BeginWebhook(c, ref, st, h, sig)
  \/ WebhookUpdate(c)
  \/ WebhookHookFind(c)
  \/ WebhookHookUpdate(c)
  \/ WebhookFailed(c)
  \/ \E ref \in PaymentRefs, st \in PayloadStatuses, h \in Hashes, sig \in Signatures :
       BeginAppWebhook(c, ref, st, h, sig)
  \/ AppWebhookUpdate(c)

NextSig ==
  \/ CreateOps(1)
  \/ SignedWebhookOps(1)

SpecSig == Init /\ [][NextSig]_vars

GetOps(c) ==
  \/ \E u \in Readers, aid \in 1..MaxAnalyses : BeginGetAnalysis(c, u, aid)
  \/ GetAnalysisFind(c)
  \/ \E u \in Readers, aid \in 1..MaxAnalyses : BeginAppGetAnalysis(c, u, aid)
  \/ AppGetAnalysisFind(c)

\* Creating, paying for, processing and reading analyses.
NextRead ==
  \/ CreateOps(1)
  \/ AppPaymentOps(1)
  \/ ProcessOps(1)
  \/ GetOps(1)

SpecRead == Init /\ [][NextRead]_vars

\* The continuation of a processAnalysis call after each of its awaits.
ProcessSteps(c) ==
  \/ ProcessFind(c)
  \/ ProcessSetProcessing(c)
  \/ ProcessFetch(c)
  \/ ProcessFearGreed(c)
  \/ ProcessGenerate(c)
  \/ ProcessSummary(c)
  \/ ProcessSave(c)
  \/ ProcessMarkFailed(c)

AppProcessSteps(c) ==
  \/ AppProcessFind(c)
  \/ AppProcessSetProcessing(c)
  \/ AppProcessSave(c)

\* The handlers of Spec; every awaited call settles, and the event loop
\* then resumes the handler that awaits it.
SpecLive ==
  /\ Init
  /\ [][Next]_vars
  /\ WF_vars(ProcessSteps(1))
  /\ WF_vars(AppProcessSteps(1))

ControllerCreateOps(c) ==
  \/ \E u \in Users, t \in RequestTypes, viaRoute \in BOOLEAN : BeginCreate(c, u, t, viaRoute)
  \/ CreateAnalysis(c)
  \/ CreatePayment(c)
  \/ CreateX402Payment(c)
  \/ CreatePaymentUpdate(c)
  \/ CreateLink(c)

\* Everything that creates or updates a payment.
NextPay ==
  \/ CreateOps(1)
  \/ ControllerCreateOps(1)
  \/ WebhookOps(1)
  \/ AppPaymentOps(1)
  \/ DistributeOps(1)

SpecPay == Init /\ [][NextPay]_vars

WalletOps(c) ==
  \/ \E u \in Users : BeginWalletCreate(c, u)
  \/ WalletCreateCheck(c)
  \/ WalletCreateCoinbase(c)
  \/ WalletCreateUpdate(c)
  \/ \E u \in Users : BeginAppWalletCreate(c, u)
  \/ AppWalletCreateCheck(c)
  \/ AppWalletCreateUpdate(c)

\* Wallet-create requests interleaving at their awaits, with time passing.
NextWallet ==
  \/ \E c \in Slots : WalletOps(c)
  \/ Tick

SpecWallet == Init /\ [][NextWallet]_vars

ListOps(c) ==
  \/ \E u \in Readers, page \in QueryValues, limit \in QueryValues :
       BeginGetUserAnalyses(c, u, page, limit)
  \/ UserAnalysesFindMany(c)
  \/ UserAnalysesCount(c)

\* Creating analyses and listing them.
NextList ==
  \/ CreateOps(1)
  \/ ListOps(1)

SpecList == Init /\ [][NextList]_vars

\* Creating analyses of several prices (both implementations), paying for
\* them and processing them.
NextPrice ==
  \/ \E u \in Users, t \in PricedRequestTypes : BeginAppCreate(1, u, t)
  \/ AppCreateAnalysis(1)
  \/ AppCreatePayment(1)
  \/ AppCreateLink(1)
  \/ \E u \in Users, t \in PricedRequestTypes : BeginCreate(1, u, t, FALSE)
  \/ CreateAnalysis(1)
  \/ CreatePayment(1)
  \/ CreateX402Payment(1)
  \/ CreatePaymentUpdate(1)
  \/ CreateLink(1)
  \/ WebhookOps(1)
  \/ AppPaymentOps(1)
  \/ ProcessOps(1)
  \/ AppProcessOps(1)

SpecPrice == Init /\ [][NextPrice]_vars

\* Requests to the analysis routes of both applications by the owner and by
\* somebody else, with the mock completion of payments.
NextRoute ==
  \/ \E app \in Apps, method \in Methods, path \in RoutePaths, u \in Readers,
        t \in {"TECHNICAL_ANALYSIS", "technicalAnalysis"} :
       RouteRequest(1, app, method, path, u, t)
  \/ AppCreateAnalysis(1)
  \/ AppCreatePayment(1)
  \/ AppCreateLink(1)
  \/ \E ref \in PaymentRefs, h \in RandomHashes : BeginComplete(1, ref, h)
  \/ CompleteUpdate(1)
  \/ GetAnalysisFind(1)
  \/ AppGetAnalysisFind(1)
  \/ ProcessSteps(1)
  \/ AppProcessSteps(1)

SpecRoute == Init /\ [][NextRoute]_vars

\* ------------------------------------------- the two implementations
\* Two analyses of one user, created alike and each linked to its own
\* PENDING payment: the first is served by PaymentService and the
\* controller, the second by the routes of the monolithic app.
InitBoth ==
  /\ payments = << NewPayment("u1", PriceOf("technicalAnalysis")),
                   NewPayment("u1", PriceOf("technicalAnalysis")) >>
  /\ analyses = << [NewAnalysis("u1", "technicalAnalysis", PriceOf("technicalAnalysis"))
                      EXCEPT !.paymentId = 1],
                   [NewAnalysis("u1", "technicalAnalysis", PriceOf("technicalAnalysis"))
                      EXCEPT !.paymentId = 2] >>
  /\ distributions = << >>
  /\ stakeholders \in StakeholderConfigs
  /\ transfers = << >>
  /\ platformWallet = [w \in WalletServices |-> FALSE]
  /\ now = 1
  /\ calls = [c \in Slots |-> IdleCall]
  /\ users = [u \in Users |-> [walletId |-> NULL]]

\* The gateway's event for the first payment reaches handlePaymentWebhook
\* and the same event for the second reaches the monolith's webhook route.
BothWebhook(status, hash) ==
  /\ Free(1)
  /\ Free(2)
  /\ calls' = [calls EXCEPT ![1] = WebhookEntered(1, 1, status, hash, "valid"),
                            ![2] = AppWebhookEntered(2, 2, status, hash, "valid")]
  /\ UNCHANGED <<users, payments, analyses, distributions, stakeholders, transfers,
                 platformWallet, now>>

\* processAnalysis is called for the first analysis on the controller and
\* for the second on the monolith's route.
BothProcess ==
  /\ Free(1)
  /\ Free(2)
  /\ calls' = [calls EXCEPT ![1] = ProcessEntered(1, "u1", 1),
                            ![2] = AppProcessEntered(2, "u1", 2)]
  /\ UNCHANGED <<users, payments, analyses, distributions, stakeholders, transfers,
                 platformWallet, now>>

NextBoth ==
  \/ \E st \in {"completed", "failed"}, h \in Hashes : BothWebhook(st, h)
  \/ BothProcess
  \/ WebhookUpdate(1)
  \/ WebhookHookFind(1)
  \/ WebhookHookUpdate(1)
  \/ WebhookFailed(1)
  \/ ProcessSteps(1)
  \/ AppWebhookUpdate(2)
  \/ AppProcessSteps(2)

\* The same sequence of events served by both implementations.
SpecBoth == InitBoth /\ [][NextBoth]_vars

\* One analysis, created and paid for: the state after a create request
\* and the completion of its payment.
InitPaid ==
  /\ now = 1
  /\ payments = << CompletedData(NewPayment("u1", PriceOf("technicalAnalysis")), "0xr1") >>
  /\ analyses = << [NewAnalysis("u1", "technicalAnalysis", PriceOf("technicalAnalysis"))
                      EXCEPT !.paymentId = 1] >>
  /\ distributions = << >>
  /\ stakeholders = CHOOSE cfg \in StakeholderConfigs : Len(cfg) = 3
  /\ transfers = << >>
  /\ platformWallet = [w \in WalletServices |-> FALSE]
  /\ calls = [c \in Slots |-> IdleCall]
  /\ users = [u \in Users |-> [walletId |-> NULL]]

\* processAnalysis calls of the controller interleaving at their awaits.
NextProc == \E c \in Slots : ProcessOps(c)

SpecProc == InitPaid /\ [][NextProc]_vars
\* =================================================================== claims
IsWebhook(call) == call.req.op \in {"webhook", "appWebhook"}

\* The distribution rows stored for a payment, in table order.
RowsOf(pid) == SelectSeq(distributions, LAMBDA d : d.paymentId = pid)

\* The transfers the custodian was asked for on behalf of a payment, in order.
TransfersOf(pid) == SelectSeq(transfers, LAMBDA t : t.paymentId = pid)

\* C1: a "completed" webhook applied again with the same payload is a no-op:
\* when the payment was already COMPLETED with the payload's transaction
\* hash as the delivery began (only an earlier delivery of the same payload
\* writes that hash), the finished delivery leaves the payment (status,
\* hash, completion time), the analyses and the distribution rows as they
\* were.
C1_RepeatCompletedWebhookIsNoOp ==
  \A c \in Slots :
    LET call == calls[c] IN
      ( /\ call.pc = "done"
        /\ IsWebhook(call)
        /\ call.req.status = "completed"
        /\ call.req.ref \in DOMAIN call.pre.payments
        /\ call.pre.payments[call.req.ref].status = "COMPLETED"
        /\ call.pre.payments[call.req.ref].transactionHash = call.req.hash )
      => /\ payments = call.pre.payments
         /\ analyses = call.pre.analyses
         /\ distributions = call.pre.distributions

C3_TerminalPaymentImmutable ==
  [][ \A p \in DOMAIN payments :
        payments[p].status \in {"COMPLETED", "FAILED"} => payments'[p] = payments[p] ]_vars

\* C4: distribution rows are created at most once per payment: a payment
\* never has more rows than one invocation creates, one per active
\* stakeholder.
C4_DistributionCreatedAtMostOnce ==
  \A p \in DOMAIN payments : Len(RowsOf(p)) <= Len(ActiveStakeholders)

\* C5: of two concurrent "completed" deliveries for one payment, both begun
\* while it was PENDING, at most one performs the transition and its side
\* effects (the analysis hook and the distributePayment invocation).
C5_OneCompletedTransitionPerPayment ==
  \A c1, c2 \in Slots :
    ( /\ c1 # c2
      /\ \A c \in {c1, c2} :
           /\ calls[c].req.op = "webhook"
           /\ calls[c].req.status = "completed"
           /\ calls[c].req.ref = calls[c1].req.ref
           /\ calls[c].req.ref \in DOMAIN calls[c].pre.payments
           /\ calls[c].pre.payments[calls[c].req.ref].status = "PENDING" )
    => ~( /\ calls[c1].pc = "done" /\ calls[c1].distInvoked
          /\ calls[c2].pc = "done" /\ calls[c2].distInvoked )

\* C6: failure isolation.  After the first distributePayment for a payment
\* has resolved, each stakeholder's row is 'completed' when that
\* stakeholder's own transfer succeeded and 'failed' only when it failed.
C6_FailureIsolation ==
  \A c \in Slots :
    LET p == calls[c].req.ref IN
      ( /\ calls[c].pc = "done"
        /\ calls[c].req.op = "distribute"
        /\ calls[c].body = "resolved"
        /\ Len(RowsOf(p)) = Len(ActiveStakeholders)
        /\ Len(TransfersOf(p)) = Len(ActiveStakeholders) )
      => \A k \in 1..Len(RowsOf(p)) :
           RowsOf(p)[k].status = IF TransfersOf(p)[k].ok THEN "completed" ELSE "failed"

\* C7: record before transfer.  Every transfer the custodian was asked for
\* has a persisted distribution row, and while distributePayment is in its
\* transfer loop every entry it computed (one per active stakeholder) is
\* persisted.
C7_RecordBeforeTransfer ==
  /\ \A n \in DOMAIN transfers :
       \E k \in DOMAIN distributions :
         /\ distributions[k].paymentId = transfers[n].paymentId
         /\ distributions[k].recipient = transfers[n].destination
         /\ distributions[k].amount = transfers[n].amount
  /\ \A c \in Slots :
       calls[c].pc \in {"dp_transfer", "dp_markCompleted", "dp_markFailed"}
       => /\ Len(RowsOf(calls[c].payment)) >= Len(ActiveStakeholders)
          /\ \A j \in DOMAIN calls[c].dists :
               \E k \in DOMAIN distributions :
                 /\ distributions[k].paymentId = calls[c].dists[j].paymentId
                 /\ distributions[k].recipient = calls[c].dists[j].recipient
                 /\ distributions[k].type = calls[c].dists[j].type
                 /\ distributions[k].amount = calls[c].dists[j].amount

\* C7 witness: distributePayment is past its first transfer request and
\* about to request the second.
C7_MidLoopWitness ==
  \E c \in Slots :
    /\ calls[c].pc = "dp_transfer"
    /\ calls[c].i = 2
    /\ Len(transfers) >= 1

\* C8: when the analysis hook of a "completed" delivery fails,
\* distributePayment is still invoked for the payment.
C8_HookFailureDoesNotBlockDistribution ==
  \A c \in Slots :
    (calls[c].pc = "done" /\ calls[c].req.op = "webhook" /\ calls[c].hookFailed)
    => calls[c].distInvoked

\* C9: a "completed" delivery whose distribution failed, or could not
\* start, is still acknowledged with 200 and leaves the payment COMPLETED.
C9_DistributionFailureStillAcknowledged ==
  \A c \in Slots :
    ( /\ calls[c].pc = "done"
      /\ calls[c].req.op = "webhook"
      /\ calls[c].req.status = "completed"
      /\ calls[c].distInvoked )
    => /\ calls[c].resp = 200
       /\ payments[calls[c].req.ref].status = "COMPLETED"

\* C10: a "completed" delivery for a PENDING payment, its hook having run,
\* leaves the payment COMPLETED with the reported hash and a completion
\* time, one distribution row per active stakeholder, and the bound analysis
\* past the payment gate.
C10_CompletedWebhookEffects ==
  \A c \in Slots :
    LET p == calls[c].req.ref IN
      ( /\ calls[c].pc = "done"
        /\ calls[c].req.op = "webhook"
        /\ calls[c].req.status = "completed"
        /\ p \in DOMAIN calls[c].pre.payments
        /\ calls[c].pre.payments[p].status = "PENDING"
        /\ ~calls[c].hookFailed )
      => /\ payments[p].status = "COMPLETED"
         /\ payments[p].transactionHash = calls[c].req.hash
         /\ payments[p].completedAt # 0
         /\ Len(RowsOf(p)) >= Len(ActiveStakeholders)
         /\ \A a \in DOMAIN analyses :
              analyses[a].paymentId = p => LinkedPaymentStatus(a) = "COMPLETED"

\* C11: an unknown or malformed webhook payload (a status other than
\* "completed"/"failed", a missing reference, or the reference of no
\* existing payment) is refused, not acknowledged, and leaves every payment,
\* analysis and distribution row as it was.
C11_InvalidWebhookRefused ==
  \A c \in Slots :
    ( /\ calls[c].pc = "done"
      /\ IsWebhook(calls[c])
      /\ \/ calls[c].req.status \notin {"completed", "failed"}
         \/ calls[c].req.ref \notin DOMAIN calls[c].pre.payments )
    => /\ calls[c].resp # 200
       /\ payments = calls[c].pre.payments
       /\ analyses = calls[c].pre.analyses
       /\ distributions = calls[c].pre.distributions

\* C12: a webhook delivery whose signature is missing or invalid is answered
\* 401 and changes no payment, analysis or distribution row.
C12_UnsignedWebhookRejected ==
  \A c \in Slots :
    ( /\ calls[c].pc = "done"
      /\ IsWebhook(calls[c])
      /\ calls[c].sig # "valid" )
    => /\ calls[c].resp = 401
       /\ payments = calls[c].pre.payments
       /\ analyses = calls[c].pre.analyses
       /\ distributions = calls[c].pre.distributions

\* C13: getAnalysis sends the analysis only to its owner; for an id that
\* does not exist and for one that belongs to another user the response is
\* the same 404 'Analysis not found' with no row, so the caller cannot tell
\* the two apart.
C13_GetAnalysisOwnerOnly ==
  [][ \A c \in Slots :
        (calls[c].pc \in {"ga_find", "ag_find"} /\ calls'[c] # calls[c])
        => IF /\ AnalysisExists(calls[c].req.aid)
              /\ analyses[calls[c].req.aid].userId = calls[c].req.user
             THEN /\ calls'[c].resp = 200
                  /\ calls'[c].ret = calls[c].req.aid
             ELSE /\ calls'[c].pc = "done"
                  /\ calls'[c].resp = 404
                  /\ calls'[c].body = "Analysis not found"
                  /\ calls'[c].ret = 0 ]_vars

\* C13 witness: somebody else asked for an existing analysis and was told
\* it was not found.
C13_ForeignAnalysisHiddenWitness ==
  \E c \in Slots :
    /\ calls[c].pc = "done"
    /\ calls[c].req.op = "getAnalysis"
    /\ AnalysisExists(calls[c].req.aid)
    /\ analyses[calls[c].req.aid].userId # calls[c].req.user
    /\ calls[c].resp = 404

\* C14: once processAnalysis is past the payment gate, a failure of the
\* data fetch or of the generation ends with the analysis FAILED and the
\* response 500 'Failed to process analysis'; processAnalysis never returns
\* with the analysis left in PROCESSING; and getAnalysis still sends the
\* owner the analysis, whatever its status.
C14_PipelineFailureMarksFailed ==
  \A c \in Slots :
    LET call == calls[c] IN
      /\ (call.pc = "done" /\ call.req.op = "process" /\ call.fetched)
         => /\ analyses[call.req.aid].status \in {"COMPLETED", "FAILED"}
            /\ call.resp \in {200, 500}
            /\ (call.resp = 500) <=> (analyses[call.req.aid].status = "FAILED")
            /\ (call.resp = 500) => (call.body = "Failed to process analysis")
      /\ ( /\ call.pc = "done"
           /\ call.req.op = "getAnalysis"
           /\ AnalysisExists(call.req.aid)
           /\ analyses[call.req.aid].userId = call.req.user )
         => (call.resp = 200 /\ call.ret = call.req.aid)

\* C14 witness: the owner reads an analysis whose processing failed.
C14_FailedAnalysisReadWitness ==
  \E c \in Slots :
    /\ calls[c].pc = "done"
    /\ calls[c].req.op = "getAnalysis"
    /\ calls[c].resp = 200
    /\ calls[c].ret # 0
    /\ analyses[calls[c].ret].status = "FAILED"

\* C15: happy path.  A processAnalysis call that looks up an analysis whose
\* linked payment is COMPLETED terminates; unless an adapter call failed
\* (the 500 of the catch), it ends with 200, the analysis COMPLETED, a
\* completion time set, and fullAnalysis and executiveSummary both stored.
\* The monolithic route calls no adapter and always ends that way.
C15_HappyPathCompletes ==
  \A c \in Slots :
    ( /\ calls[c].pc \in {"pa_find", "ap_find"}
      /\ AnalysisExists(calls[c].req.aid)
      /\ LinkedPaymentStatus(calls[c].req.aid) = "COMPLETED" )
    ~> ( /\ calls[c].pc = "done"
         /\ calls[c].req.op \in {"process", "appProcess"}
         /\ \/ calls[c].resp = 500 /\ calls[c].req.op = "process"
            \/ /\ calls[c].resp = 200
               /\ analyses[calls[c].req.aid].status = "COMPLETED"
               /\ analyses[calls[c].req.aid].completedAt # 0
               /\ analyses[calls[c].req.aid].result.fullAnalysis # NULL
               /\ analyses[calls[c].req.aid].result.executiveSummary # NULL )

\* C15 witness: processAnalysis of the controller ended with the analysis
\* COMPLETED and its report stored.
C15_CompletedWithResultWitness ==
  \E c \in Slots :
    /\ calls[c].pc = "done"
    /\ calls[c].req.op = "process"
    /\ calls[c].resp = 200
    /\ analyses[calls[c].req.aid].status = "COMPLETED"
    /\ analyses[calls[c].req.aid].result.fullAnalysis # NULL

\* C16: distribution rows are append-only and their status is monotonic: no
\* step removes or rewrites a stored row other than taking it from 'pending'
\* to 'completed' or 'failed', and a row that is 'completed' or 'failed'
\* never changes status again.
C16_DistributionRowsMonotonic ==
  [][ /\ Len(distributions') >= Len(distributions)
      /\ \A k \in DOMAIN distributions :
           /\ distributions'[k].paymentId = distributions[k].paymentId
           /\ distributions'[k].recipient = distributions[k].recipient
           /\ distributions'[k].amount = distributions[k].amount
           /\ distributions[k].status \in {"completed", "failed"}
              => distributions'[k].status = distributions[k].status ]_vars

RECURSIVE SumOf(_, _)
\* The sum of field f over a sequence of records.
SumOf(seq, f) == IF seq = << >> THEN 0 ELSE seq[1][f] + SumOf(Tail(seq), f)

\* C17: when the percentages of the active stakeholders sum to 100, the
\* rows distributePayment(paymentId, X) creates are one per active
\* stakeholder and their amounts sum to X (amounts are in hundredths of a
\* unit, so to 100 * X).
C17_AmountsSumToTotal ==
  [][ \A c \in Slots :
        ( /\ calls[c].pc = "dp_createMany"
          /\ calls'[c] # calls[c]
          /\ SumOf(SelectSeq(stakeholders, LAMBDA s : s.isActive), "percentage") = 100 )
        => LET created == SubSeq(distributions', Len(distributions) + 1, Len(distributions'))
           IN /\ Len(created) = Len(SelectSeq(stakeholders, LAMBDA s : s.isActive))
              /\ \A k \in DOMAIN created : created[k].paymentId = calls[c].payment
              /\ SumOf(created, "amount") = 100 * calls[c].total ]_vars

\* C17 witness: rows were created for a total of 33 split 60/40 and the
\* transfer loop is running.
C17_RowsCreatedWitness ==
  \E c \in Slots :
    /\ calls[c].pc = "dp_transfer"
    /\ calls[c].total = 33
    /\ Len(RowsOf(calls[c].payment)) >= 2
    /\ SumOf(RowsOf(calls[c].payment), "amount") = 3300

\* C18: a payment's amount is immutable: no step (the gateway-reference
\* update of createPayment, webhook reconciliation, explicit completion,
\* distribution) changes the amount of a stored payment, and no payment row
\* is removed.
C18_PaymentAmountImmutable ==
  [][ /\ Len(payments') >= Len(payments)
      /\ \A p \in DOMAIN payments : payments'[p].amount = payments[p].amount ]_vars

\* C18 witness: a payment created by createPayment has its gateway
\* reference, was completed by a webhook and has been distributed.
C18_PaymentUpdatedWitness ==
  \E p \in DOMAIN payments :
    /\ payments[p].x402PaymentId # NULL
    /\ payments[p].status = "COMPLETED"
    /\ payments[p].transactionHash \in Hashes
    /\ Len(RowsOf(p)) >= 1
    /\ payments[p].amount = 25

\* The positions of a create handler between its first write and its end.
CreatePcs == {"ac_createPayment", "ac_link", "cp_create", "cp_x402", "cp_update", "cr_link"}

\* C19: an analysis references exactly one payment for its whole lifetime:
\* once the request that created it has ended, every stored analysis links
\* an existing payment.
C19_AnalysisHasOnePayment ==
  (\A c \in Slots : calls[c].pc \notin CreatePcs)
  => \A a \in DOMAIN analyses : analyses[a].paymentId \in DOMAIN payments

\* C20: createAnalysisRequest through its route, for a category of the
\* enumerated set, answers 200 having created an analysis in PENDING_PAYMENT
\* at the configured price (25 for TECHNICAL_ANALYSIS) and a PENDING payment
\* of that amount.
C20_CreateForEnumeratedCategory ==
  \A c \in Slots :
    ( /\ calls[c].pc = "done"
      /\ calls[c].req.op = "create"
      /\ calls[c].req.type \in ValidatedTypes
      /\ Len(calls[c].pre.analyses) < MaxAnalyses )
    => /\ calls[c].resp = 200
       /\ calls[c].ret \in DOMAIN analyses
       /\ analyses[calls[c].ret].price = 25
       /\ analyses[calls[c].ret].paymentId \in DOMAIN payments
       /\ payments[analyses[calls[c].ret].paymentId].amount = 25

\* C21: a create request (either implementation, through the route or not)
\* for a category that is no member of the pricing table is answered 400
\* and stores no analysis, no payment, and submits no payment intent.
C21_InvalidCategoryCreatesNothing ==
  \A c \in Slots :
    ( /\ calls[c].pc = "done"
      /\ calls[c].req.op \in {"create", "createHandler", "appCreate"}
      /\ calls[c].req.type \notin PricingKeys )
    => /\ calls[c].resp = 400
       /\ calls[c].body \in {"Invalid analysis type", "Validation error"}
       /\ calls[c].intentsSent = 0
       /\ payments = calls[c].pre.payments
       /\ analyses = calls[c].pre.analyses

\* C21 witness: createAnalysisRequest, called past the validation, refused a
\* category the pricing table does not hold.
C21_InvalidCategoryWitness ==
  \E c \in Slots :
    /\ calls[c].pc = "done"
    /\ calls[c].req.op = "createHandler"
    /\ calls[c].req.type = "MEME_ANALYSIS"
    /\ calls[c].body = "Invalid analysis type"

\* C22: when the gateway rejects the payment intent, the caller gets an
\* error, the payment row just created stays PENDING with no gateway
\* reference, the analysis just created stays PENDING_PAYMENT with no
\* payment link, and the intent was submitted exactly once.
C22_IntentFailureLeavesRows ==
  \A c \in Slots :
    ( /\ calls[c].pc = "done"
      /\ calls[c].req.op \in {"create", "createHandler"}
      /\ calls[c].resp = 500 )
    => /\ calls[c].intentsSent = 1
       /\ Len(payments) = Len(calls[c].pre.payments) + 1
       /\ payments[Len(payments)].status = "PENDING"
       /\ payments[Len(payments)].x402PaymentId = NULL
       /\ Len(analyses) = Len(calls[c].pre.analyses) + 1
       /\ analyses[Len(analyses)].status = "PENDING_PAYMENT"
       /\ analyses[Len(analyses)].paymentId = 0
       /\ \A d \in Slots : d # c => calls[d].intentsSent = 0

\* C22 witness: createAnalysisRequest ended in the error after one intent.
C22_IntentFailedWitness ==
  \E c \in Slots :
    /\ calls[c].pc = "done"
    /\ calls[c].req.op = "createHandler"
    /\ calls[c].resp = 500
    /\ calls[c].intentsSent = 1
    /\ Len(payments) = 1

\* C23: a "failed" webhook for an existing payment takes it from PENDING to
\* FAILED and changes nothing when the payment is not PENDING (a repeat
\* included).
C23_FailedWebhookIdempotent ==
  \A c \in Slots :
    LET p == calls[c].req.ref IN
      ( /\ calls[c].pc = "done"
        /\ IsWebhook(calls[c])
        /\ calls[c].req.status = "failed"
        /\ p \in DOMAIN calls[c].pre.payments )
      => IF calls[c].pre.payments[p].status = "PENDING"
           THEN payments = [calls[c].pre.payments EXCEPT ![p].status = "FAILED"]
           ELSE payments = calls[c].pre.payments

\* C24: a user's wallet binding is set at most once: no step changes a
\* walletId that is set, also when two wallet-create requests of the user
\* are in flight together.
C24_WalletBoundOnce ==
  [][ \A u \in Users : users[u].walletId # NULL => users'[u] = users[u] ]_vars

\* C25: sentiment is best effort: the step that awaits getFearGreedIndex
\* never sends processAnalysis to its catch; when the sentiment request
\* failed the index is the neutral 50, generation starts all the same, and
\* a stored result carries either the reported index or 50.
C25_SentimentBestEffort ==
  [][ \A c \in Slots :
        /\ (calls[c].pc = "pa_fearGreed" /\ calls'[c] # calls[c])
           => /\ calls'[c].pc = "pa_generate"
              /\ calls'[c].sentiment = "failed" => calls'[c].fearGreedIndex = 50
              /\ calls'[c].fearGreedIndex \in {50, ReportedFearGreed}
        /\ (calls[c].pc = "pa_save" /\ calls'[c] # calls[c])
           => /\ calls'[c].resp = 200
              /\ analyses'[calls[c].req.aid].status = "COMPLETED"
              /\ analyses'[calls[c].req.aid].result.fearGreedIndex = calls[c].fearGreedIndex ]_vars

\* C25 witness: an analysis was COMPLETED by processAnalysis with the
\* default index, the sentiment request having failed.
C25_CompletedWithDefaultWitness ==
  \E c \in Slots :
    /\ calls[c].pc = "done"
    /\ calls[c].req.op = "process"
    /\ calls[c].resp = 200
    /\ analyses[calls[c].req.aid].status = "COMPLETED"
    /\ analyses[calls[c].req.aid].result.fearGreedIndex = 50

\* C26: getCryptoData asks the secondary provider exactly when the primary
\* failed, returns the secondary's quote when that succeeds, and fails only
\* when both fail (processAnalysis then goes to its catch); with the primary
\* answering, the quote is the primary's and the secondary is not asked.
C26_SecondaryOnPrimaryFailure ==
  \A c \in Slots :
    LET call == calls[c] IN
      call.quote # NoQuote =>
        /\ "coinmarketcap" \in call.quote.consulted
        /\ call.providers.primaryOk
           => /\ call.quote.ok
              /\ call.quote.source = "coinmarketcap"
              /\ "coingecko" \notin call.quote.consulted
        /\ ~call.providers.primaryOk
           => /\ "coingecko" \in call.quote.consulted
              /\ call.quote.ok <=> call.providers.secondaryOk
              /\ call.quote.ok => call.quote.source = "coingecko"
        /\ ~call.quote.ok => call.pc = "pa_markFailed"

\* C26 witness: the primary failed, the quote came from the secondary, and
\* processAnalysis went on with it.
C26_SecondaryQuoteWitness ==
  \E c \in Slots :
    /\ calls[c].pc = "pa_generate"
    /\ ~calls[c].providers.primaryOk
    /\ calls[c].quote.ok
    /\ calls[c].quote.source = "coingecko"

\* C27: getUserAnalyses defaults page and limit to 1 and 10, and no query
\* reaches the storage layer with a page or limit that is not a number or
\* not positive.
C27_PaginationChecked ==
  \A c \in Slots :
    calls[c].issued =>
      /\ ~calls[c].query.page.nan
      /\ ~calls[c].query.limit.nan
      /\ calls[c].query.page.val >= 1
      /\ calls[c].query.limit.val >= 1

\* C28: a result is populated once: no step changes the result, status or
\* completion time of an analysis that is COMPLETED with a result.
C28_ResultPopulatedOnce ==
  [][ \A a \in DOMAIN analyses :
        (analyses[a].status = "COMPLETED" /\ analyses[a].result # NoResult)
        => analyses'[a] = analyses[a] ]_vars

\* C29: every payment is tied to exactly one analysis: once the request
\* that created it has ended, each stored payment is linked from exactly
\* one analysis.
C29_PaymentHasOneAnalysis ==
  (\A c \in Slots : calls[c].pc \notin CreatePcs)
  => \A p \in DOMAIN payments :
       Cardinality({a \in DOMAIN analyses : analyses[a].paymentId = p}) = 1

C31_PipelineOrdering ==
  /\ [](\A c \in Slots :
         LET call == calls[c] IN
           /\ call.pc \in {"pa_fearGreed", "pa_generate", "pa_summary", "pa_save"}
              => (call.quote.ok /\ call.market = "ok")
           /\ call.pc \in {"pa_fetch", "pa_fearGreed", "pa_generate"}
              => (call.report = NULL /\ call.summary = NULL)
           /\ call.pc = "pa_summary" => (call.report # NULL /\ call.summary = NULL)
           /\ call.pc = "pa_save"
              => /\ call.report # NULL
                 /\ call.summary = GenerateExecutiveSummary(call.report))
  /\ [][ \A c \in Slots :
           ( /\ calls[c].req.op = "process"
             /\ calls'[c] # calls[c]
             /\ analyses' # analyses
             /\ analyses'[calls[c].req.aid].status = "COMPLETED" )
           => /\ calls[c].pc = "pa_save"
              /\ analyses'[calls[c].req.aid].result.fullAnalysis = calls[c].report
              /\ analyses'[calls[c].req.aid].result.fullAnalysis # NULL
              /\ analyses'[calls[c].req.aid].result.executiveSummary
                   = GenerateExecutiveSummary(calls[c].report) ]_vars

\* C31 witness: both fetches succeeded, the quote came
\* from the secondary provider, and processAnalysis holds the report and
\* its summary and is about to write COMPLETED.
C31_BothTextsBeforeSaveWitness ==
  \E c \in Slots :
    /\ calls[c].pc = "pa_save"
    /\ calls[c].quote.source = "coingecko"
    /\ calls[c].market = "ok"
    /\ calls[c].report = "report on technicalAnalysis quoted by coingecko"
    /\ calls[c].summary = "summary of report on technicalAnalysis quoted by coingecko"

\* C32: the price of an analysis is the pricing-table value of its category
\* as looked up when it was created, the payment an analysis links has that
\* price as its amount, and no step changes the price of a stored analysis.
C32_PriceSnapshot ==
  /\ [](\A a \in DOMAIN analyses :
          /\ analyses[a].type \in PricingKeys
          /\ analyses[a].price = pricing[analyses[a].type]
          /\ analyses[a].paymentId # 0
             => /\ analyses[a].paymentId \in DOMAIN payments
                /\ payments[analyses[a].paymentId].amount = analyses[a].price)
  /\ [][ /\ Len(analyses') >= Len(analyses)
         /\ \A a \in DOMAIN analyses : analyses'[a].price = analyses[a].price ]_vars

\* C32 witness: an analysis of the basic category, priced 10, was paid for
\* and processed to COMPLETED, and its payment is of 10.
C32_PaidAndProcessedWitness ==
  \E a \in DOMAIN analyses :
    /\ analyses[a].type = "basicOverview"
    /\ analyses[a].price = 10
    /\ analyses[a].status = "COMPLETED"
    /\ analyses[a].paymentId \in DOMAIN payments
    /\ payments[analyses[a].paymentId].amount = 10
    /\ payments[analyses[a].paymentId].status = "COMPLETED"

\* The orchestrator method a request to the analysis routes is meant for.
RouteFor(method, path) ==
  CASE method = "GET" /\ path = <<"types">> -> {"getAnalysisTypes"}
    [] method = "GET" /\ path = <<"user">> -> {"getUserAnalyses"}
    [] method = "GET" /\ path = <<"a1">> -> {"getAnalysis", "appGetAnalysis"}
    [] method = "POST" /\ path = << >> -> {"create", "appCreate"}
    [] method = "POST" /\ path = <<"a1", "process">> -> {"process", "appProcess"}
    [] OTHER -> {"none"}

\* C33: every request to the analysis routes is handled by the orchestrator
\* method its path names; in particular GET /user is handled by
\* getUserAnalyses, not by getAnalysis with analysisId = "user".
C33_RoutesDispatchOneToOne ==
  \A c \in Slots :
    calls[c].method # NULL => calls[c].req.op \in RouteFor(calls[c].method, calls[c].path)

\* C34: the two implementations agree.  After any sequence of webhook
\* events ("completed" / "failed") and processAnalysis calls served for one
\* payment and analysis by PaymentService and the controller and for
\* another, created alike, by the monolithic routes, the two payments have
\* the same status, the two analyses the same status, and the payments the
\* same distribution rows (recipient, amount, type, status).
C34_ImplementationsAgree ==
  (Free(1) /\ Free(2))
  => /\ payments[1].status = payments[2].status
     /\ analyses[1].status = analyses[2].status
     /\ [k \in DOMAIN RowsOf(1) |-> [RowsOf(1)[k] EXCEPT !.paymentId = 0, !.txHash = 0]]
          = [k \in DOMAIN RowsOf(2) |-> [RowsOf(2)[k] EXCEPT !.paymentId = 0, !.txHash = 0]]

\* C35: the payment-completion hook only moves an analysis forward: no step
\* of a "completed" webhook delivery changes the status of an analysis that
\* is COMPLETED or FAILED.
C35_HookOnlyForward ==
  [][ \A c \in Slots :
        (calls[c].req.op = "webhook" /\ calls[c].req.status = "completed"
           /\ calls'[c] # calls[c])
        => \A a \in DOMAIN analyses :
             analyses[a].status \in {"COMPLETED", "FAILED"}
             => analyses'[a].status = analyses[a].status ]_vars

\* C36: in distributePayment the outcome of one stakeholder's transfer
\* updates that stakeholder's row only: the step that records the outcome
\* changes at most one stored distribution row, also when two active
\* stakeholders share wallet and category and when an earlier invocation
\* left rows for the same payment.
C36_OutcomeUpdatesOneRow ==
  [][ \A c \in Slots :
        (calls[c].pc \in {"dp_markCompleted", "dp_markFailed"} /\ calls'[c] # calls[c])
        => /\ Len(distributions') = Len(distributions)
           /\ Cardinality({k \in DOMAIN distributions :
                             distributions'[k] # distributions[k]}) <= 1 ]_vars

\* C37: distribution rows exist only for payments that have reached
\* COMPLETED: the payment of every stored row carries a completion time
\* (which only the COMPLETED update writes) and is not PENDING.
C37_RowsOnlyForCompletedPayments ==
  \A k \in DOMAIN distributions :
    /\ distributions[k].paymentId \in DOMAIN payments
    /\ payments[distributions[k].paymentId].completedAt # 0
    /\ payments[distributions[k].paymentId].status # "PENDING"

\* C38: processAnalysis discloses nothing to a caller who does not own the
\* analysis: a request through the process route by an authenticated user
\* other than the owner is answered as for an analysis that does not exist
\* (404 'Analysis not found') and leaves the analyses as they were.
C38_ProcessOwnerOnly ==
  \A c \in Slots :
    LET call == calls[c] IN
      ( /\ call.pc = "done"
        /\ call.req.op \in {"process", "appProcess"}
        /\ call.method = "POST"
        /\ call.req.aid \in DOMAIN call.pre.analyses
        /\ call.pre.analyses[call.req.aid].userId # call.req.user )
      => /\ call.resp = 404
         /\ call.body = "Analysis not found"
         /\ analyses = call.pre.analyses

\* C39: two concurrent processAnalysis calls of one implementation for one
\* paid analysis (each began before the other had written COMPLETED) leave
\* a consistent state:
\* once both have returned, if either answered 200, having written
\* COMPLETED with the result, the analysis is COMPLETED with a result.
C39_ConcurrentProcessConsistent ==
  \A c1, c2 \in Slots :
    ( /\ c1 # c2
      /\ \A c \in {c1, c2} :
           /\ calls[c].pc = "done"
           /\ calls[c].req.op \in {"process", "appProcess"}
           /\ calls[c].req.op = calls[c1].req.op
           /\ calls[c].req.aid = calls[c1].req.aid
           /\ calls[c].req.aid \in DOMAIN calls[c].pre.analyses
           /\ calls[c].pre.analyses[calls[c].req.aid].status # "COMPLETED"
           /\ calls[c].fetched
      /\ calls[c1].resp = 200 )
    => /\ analyses[calls[c1].req.aid].status = "COMPLETED"
       /\ analyses[calls[c1].req.aid].result # NoResult
====
